---- MODULE Spec2Model ----
(***************************************************************************)
(* Model of the HR chatbot backend: the answer generator                   *)
(* (backend/answer_generator.py), the LLM chat service                     *)
(* (backend/services/hr_chat_llm.py) and the /chat endpoint with its       *)
(* in-memory embedding index (backend/app.py, backend/semantic_search.py), *)
(* the document cleaner and chunker (backend/text_chunker.py), the skill   *)
(* confidence update (backend/skill_confidence_updater.py) and the points  *)
(* engine (backend/helix_points_engine.py).                                *)
(*                                                                         *)
(* Strings.  A Python string is modelled as the sequence of atoms whose     *)
(* concatenation it is: an atom is a run of letters and digits, a run of   *)
(* whitespace (" ", "\n", "\n\n"), a period, a brace, a code fence, a     *)
(* comma between JSON members or one member of a JSON object.  len() is    *)
(* the sum of the atoms' lengths, split() gives the maximal runs of        *)
(* non-whitespace atoms, strip() drops whitespace atoms at both ends,      *)
(* split('.') cuts at the period atoms and `x in s` is a search for a      *)
(* contiguous run of atoms.  The vocabulary holds no atom that contains    *)
(* another atom of a searched phrase, so the search agrees with Python's   *)
(* character search.                                                       *)
(*                                                                         *)
(* Numbers.  Similarities and confidences are fixed-point integers in      *)
(* thousandths (One == 1000).  The scores drawn are multiples of 0.006,    *)
(* so the mean of up to three of them is exact.                            *)
(***************************************************************************)
EXTENDS Integers, Sequences, FiniteSets, TLC

VARIABLES
    fn,                 \* answer pipeline: name of the function last called
    arg,                \* answer pipeline: its arguments
    ret,                \* answer pipeline: what it returned (or that it raised)
    _embeddings,        \* app.py global: the live vectors, or None
    _chunk_texts,       \* app.py global: the live texts
    _chunks_metadata,   \* app.py global: metadata of the ingested chunks
    _embeddings_loaded, \* app.py global: TRUE once an index was built
    disk,               \* the PDF files of hr_documents/ and the chunks file
    embedder,           \* "ok" when sentence-transformers can build vectors
    modules,            \* FALSE when the import block of app.py fell back to None
    running,            \* the coroutine the event loop is executing, 0 for
                        \* none, -1 while the startup event has not run
    co,                 \* coroutine id -> its frame (handler, pc, locals)
    log                 \* the last index build call: which one, what it
                        \* returned, the globals when it was called

genVars == <<fn, arg, ret>>
srvVars == <<_embeddings, _chunk_texts, _chunks_metadata, _embeddings_loaded,
             disk, embedder, modules, running, co, log>>
vars == <<fn, arg, ret, _embeddings, _chunk_texts, _chunks_metadata,
          _embeddings_loaded, disk, embedder, modules, running, co, log>>

----------------------------------------------------------------------------
(* Python values that are not strings *)

None == <<"<None>">>
NonStr == <<"<int>">>
IsStr(x) == x # None /\ x # NonStr

Min(a, b) == IF a <= b THEN a ELSE b
Max(a, b) == IF a >= b THEN a ELSE b

----------------------------------------------------------------------------
(* Strings *)

IsSpace(a) == a \in {" ", "\n", "\n\n"}

RECURSIVE SumLen(_)
SumLen(t) == IF t = <<>> THEN 0 ELSE Len(Head(t)) + SumLen(Tail(t))

\* len(s)
StrLen(t) == SumLen(t)

RECURSIVE lstrip(_)
lstrip(t) == IF t # <<>> /\ IsSpace(Head(t)) THEN lstrip(Tail(t)) ELSE t

RECURSIVE rstrip(_)
rstrip(t) ==
    IF t # <<>> /\ IsSpace(t[Len(t)]) THEN rstrip(SubSeq(t, 1, Len(t) - 1)) ELSE t

\* s.strip()
strip(t) == rstrip(lstrip(t))

\* The words of a phrase joined by single spaces.
RECURSIVE Words(_)
Words(ws) ==
    IF Len(ws) <= 1 THEN ws ELSE <<Head(ws), " ">> \o Words(Tail(ws))

\* A sentence: its words, then a period.
Sentence(ws) == Words(ws) \o <<".">>

LowerAtom(a) ==
    CASE a = "I" -> "i"
      [] a = "HR" -> "hr"
      [] a = "Please" -> "please"
      [] a = "Based" -> "based"
      [] a = "If" -> "if"
      [] a = "Note:" -> "note:"
      [] a = "(Note:" -> "(note:"
      [] a = "Additional" -> "additional"
      [] a = "Unable" -> "unable"
      [] a = "I'm" -> "i'm"
      [] a = "Could" -> "could"
      [] a = "Employees" -> "employees"
      [] a = "Annual" -> "annual"
      [] a = "Leave" -> "leave"
      [] a = "Sick" -> "sick"
      [] a = "Twenty" -> "twenty"
      [] a = "Document" -> "document"
      [] a = "Excerpt" -> "excerpt"
      [] a = "'How" -> "'how"
      [] OTHER -> a

\* s.lower()
lower(t) == [i \in 1..Len(t) |-> LowerAtom(t[i])]

\* s.split(): the maximal runs of non-whitespace atoms, in order
RECURSIVE SplitFrom(_, _)
SplitFrom(t, run) ==
    IF t = <<>> THEN (IF run = <<>> THEN <<>> ELSE <<run>>)
    ELSE IF IsSpace(Head(t))
         THEN (IF run = <<>> THEN <<>> ELSE <<run>>) \o SplitFrom(Tail(t), <<>>)
         ELSE SplitFrom(Tail(t), Append(run, Head(t)))

split(t) == SplitFrom(t, <<>>)

\* set(s.split())
WordSet(t) == {split(t)[i] : i \in 1..Len(split(t))}

\* A one-atom word, as split() gives it.
Word(a) == <<a>>

\* phrase in s
Contains(t, phrase) ==
    \E i \in 1..(Len(t) - Len(phrase) + 1) :
        SubSeq(t, i, i + Len(phrase) - 1) = phrase

----------------------------------------------------------------------------
(* Fixed-point numbers *)

One == 1000

\* max(0.0, min(1.0, x))
Clamp(x) == Max(0, Min(One, x))

\* round(x, 2): to the nearest hundredth, an exact tie to the even one.
Round2(x) ==
    LET q == x \div 10
        r == x % 10
    IN  IF r < 5 THEN 10 * q
        ELSE IF r > 5 THEN 10 * (q + 1)
        ELSE IF q % 2 = 0 THEN 10 * q ELSE 10 * (q + 1)

RECURSIVE Sum(_)
Sum(s) == IF s = <<>> THEN 0 ELSE Head(s) + Sum(Tail(s))

----------------------------------------------------------------------------
(* answer_generator.py: fixed texts *)

MSG_REPHRASE ==
    Sentence(<<"I'm", "sorry,", "I", "didn't", "understand", "your", "question">>)
    \o <<" ">> \o Words(<<"Could", "you", "please", "rephrase", "it?">>)

PLEASE_CONTACT_HR == Sentence(<<"Please", "contact", "HR", "for", "assistance">>)

MSG_NO_INFO_SHORT ==
    Sentence(<<"I", "don't", "have", "enough", "information", "to", "answer",
               "that", "question">>) \o <<" ">> \o PLEASE_CONTACT_HR

MSG_NO_INFO ==
    Sentence(<<"I", "don't", "have", "enough", "information", "in", "the", "HR",
               "documents", "to", "answer", "that", "question">>)
    \o <<" ">> \o PLEASE_CONTACT_HR

FALLBACK_PREFIX == Words(<<"Based", "on", "the", "HR", "documents:">>) \o <<"\n\n">>

FALLBACK_NOTE ==
    <<"\n\n">>
    \o Sentence(<<"(Note:", "Additional", "relevant", "information", "may", "be",
                  "available">>) \o <<" ">>
    \o Sentence(<<"Please", "contact", "HR", "for", "complete", "details">>)
    \o <<")">>

STRICT_NOTE_MANY ==
    <<"\n\n">>
    \o Sentence(<<"Note:", "If", "this", "doesn't", "fully", "answer", "your",
                  "question,", "please", "contact", "HR", "for", "complete",
                  "details">>)

STRICT_NOTE_ONE ==
    <<"\n\n">>
    \o Sentence(<<"If", "this", "doesn't", "fully", "answer", "your", "question,",
                  "please", "contact", "HR", "for", "assistance">>)

\* missing_indicators of _assess_answer_quality and _calculate_confidence
missing_indicators ==
    { Words(<<"don't", "have">>), Words(<<"not", "in", "the">>),
      Words(<<"not", "available">>), Words(<<"contact", "hr">>),
      Words(<<"not", "found">>), Words(<<"unable", "to", "find">>),
      Words(<<"no", "information">>) }

\* any(indicator in answer_lower for indicator in missing_indicators)
HasMissingIndicator(answer) ==
    \E ind \in missing_indicators : Contains(lower(answer), ind)

----------------------------------------------------------------------------
(* answer_generator.py: the provider call.  llm is what the OpenAI client  *)
(* does for this request: there is no client ("no_client"), the call       *)
(* raises ("raises"), the response has no usable choice ("malformed"), or  *)
(* it carries a content value ("content": a string, None or a non-string). *)

\* truthiness of a string-or-None value
Truthy(x) == x # None /\ x # <<>>

\* Result of a call: a value, or an exception raised to the caller.
Ok(v) == [exc |-> FALSE, val |-> v]
Raised == [exc |-> TRUE, val |-> None]

\* try: r  except Exception: handler
TryExcept(r, handler) == IF r.exc THEN handler ELSE r

\* client.chat.completions.create(...) and the checks on its response
ExtractContent(llm) ==
    CASE llm.kind = "raises" -> Raised
      [] llm.kind = "malformed" -> Ok(None)
      [] llm.kind = "content" ->
            IF llm.content = None \/ ~IsStr(llm.content) THEN Ok(None)
            ELSE IF strip(llm.content) = <<>> THEN Ok(None)
            ELSE Ok(strip(llm.content))

_generate_with_llm(query, context_chunks, llm) ==
    IF llm.kind = "no_client" THEN Ok(None)
    ELSE TryExcept(ExtractContent(llm), Ok(None))

_generate_with_llm_strict(query, context_chunks, llm) ==
    IF llm.kind = "no_client" THEN Ok(None)
    ELSE TryExcept(ExtractContent(llm), Ok(None))

_generate_fallback_answer(query, context_chunks) ==
    IF context_chunks = <<>> THEN MSG_NO_INFO_SHORT
    ELSE IF Len(context_chunks) > 1
         THEN FALLBACK_PREFIX \o context_chunks[1] \o FALLBACK_NOTE
         ELSE FALLBACK_PREFIX \o context_chunks[1]

\* [chunk.strip() for chunk in xs if chunk and isinstance(chunk, str) and chunk.strip()]
RECURSIVE ValidChunks(_)
ValidChunks(xs) ==
    IF xs = <<>> THEN <<>>
    ELSE LET c == Head(xs)
         IN  IF Truthy(c) /\ IsStr(c) /\ strip(c) # <<>>
             THEN <<strip(c)>> \o ValidChunks(Tail(xs))
             ELSE ValidChunks(Tail(xs))

\* generate_answer without the `if answer:` test before the return
generate_answer_unchecked(query, context_chunks, llm) ==
    IF ~Truthy(query) \/ ~IsStr(query) THEN Ok(MSG_REPHRASE)
    ELSE IF context_chunks.kind # "list" \/ context_chunks.items = <<>>
    THEN Ok(MSG_NO_INFO_SHORT)
    ELSE Ok(_generate_with_llm(query, ValidChunks(context_chunks.items), llm).val)

generate_answer(query, context_chunks, llm) ==
    IF ~Truthy(query) \/ ~IsStr(query) THEN Ok(MSG_REPHRASE)
    ELSE IF context_chunks.kind # "list" \/ context_chunks.items = <<>>
    THEN Ok(MSG_NO_INFO_SHORT)
    ELSE LET valid_chunks == ValidChunks(context_chunks.items)
         IN  IF valid_chunks = <<>> THEN Ok(MSG_NO_INFO_SHORT)
             ELSE LET answer == TryExcept(_generate_with_llm(query, valid_chunks, llm),
                                          Ok(None))
                  IN  IF Truthy(answer.val) THEN Ok(answer.val)
                      ELSE Ok(_generate_fallback_answer(query, valid_chunks))

----------------------------------------------------------------------------
(* answer_generator.py: the metadata-aware generator and its confidence    *)
(* A context chunk is [kind, text, chunk_id, score]: a dict ("dict", text  *)
(* is chunk.get('text', '')), a bare string ("str") or anything else.      *)

_generate_fallback_answer_strict(query, context_chunks) ==
    IF context_chunks = <<>> THEN [answer |-> MSG_NO_INFO, quality |-> "none"]
    ELSE IF Len(context_chunks) > 1
         THEN [answer |-> FALLBACK_PREFIX \o context_chunks[1] \o STRICT_NOTE_MANY,
               quality |-> "partial"]
         ELSE [answer |-> FALLBACK_PREFIX \o context_chunks[1] \o STRICT_NOTE_ONE,
               quality |-> "partial"]

\* query.lower() raises AttributeError when query is not a string
_assess_answer_quality(answer, query, context_chunks) ==
    IF HasMissingIndicator(answer) THEN Ok("none")
    ELSE IF StrLen(strip(answer)) < 50 THEN Ok("partial")
    ELSE IF ~IsStr(query) THEN Raised
    ELSE LET query_words == WordSet(lower(query))
             answer_words == WordSet(lower(answer))
             overlap == Cardinality(query_words \cap answer_words)
         IN  IF 10 * overlap < 3 * Cardinality(query_words)
             THEN Ok("partial") ELSE Ok("clear")

_generate_answer_strict(query, context_chunks, sources, llm) ==
    IF context_chunks = <<>> THEN [answer |-> MSG_NO_INFO, quality |-> "none"]
    ELSE LET answer == _generate_with_llm_strict(query, context_chunks, llm)
             quality == IF answer.exc \/ ~Truthy(answer.val) THEN Raised
                        ELSE _assess_answer_quality(answer.val, query, context_chunks)
         IN  IF ~answer.exc /\ Truthy(answer.val) /\ ~quality.exc
             THEN [answer |-> answer.val, quality |-> quality.val]
             ELSE _generate_fallback_answer_strict(query, context_chunks)

\* len(query_words & answer_words) / max(len(query_words), 1) > 0.5
KeywordOverlapHigh(answer, query) ==
    LET query_words == WordSet(lower(query))
        answer_words == WordSet(lower(answer))
    IN  2 * Cardinality(query_words \cap answer_words)
            > Max(Cardinality(query_words), 1)

\* _calculate_confidence without the final clamp
_calculate_confidence_unclamped(avg_similarity, answer, query) ==
    LET capped == IF HasMissingIndicator(answer)
                  THEN Min(avg_similarity, 400) ELSE avg_similarity
        boosted == IF KeywordOverlapHigh(answer, query) /\ StrLen(answer) > 100
                   THEN Min(capped + 100, One) ELSE capped
    IN  Round2(boosted)

_calculate_confidence(avg_similarity, answer, query) ==
    LET capped == IF HasMissingIndicator(answer)
                  THEN Min(avg_similarity, 400) ELSE avg_similarity
        boosted == IF KeywordOverlapHigh(answer, query) /\ StrLen(answer) > 100
                   THEN Min(capped + 100, One) ELSE capped
    IN  Round2(Clamp(boosted))

_generate_reason(confidence, avg_similarity, answer) ==
    IF confidence >= 800 THEN <<"Answer is clearly stated in the HR documents">>
    ELSE IF confidence >= 500
    THEN <<"Answer is partially covered in the HR documents or requires interpretation">>
    ELSE IF avg_similarity < 500
    THEN <<"Low similarity between question and available documents">>
    ELSE IF Contains(lower(answer), Words(<<"don't", "have">>))
            \/ Contains(lower(answer), Words(<<"not", "in">>))
    THEN <<"Information not found in the HR documents">>
    ELSE <<"Answer quality is uncertain or incomplete">>

\* The chunks generate_answer_with_metadata keeps: a dict with a truthy text,
\* or any bare string.
RECURSIVE KeptChunks(_)
KeptChunks(cs) ==
    IF cs = <<>> THEN <<>>
    ELSE LET c == Head(cs)
             keep == \/ c.kind = "dict" /\ Truthy(c.text)
                     \/ c.kind = "str"
         IN  (IF keep THEN <<c>> ELSE <<>>) \o KeptChunks(Tail(cs))

SourceOf(c) ==
    IF c.kind = "dict" THEN [chunk_id |-> c.chunk_id, score |-> c.score]
    ELSE [chunk_id |-> 0, score |-> 0]

generate_answer_with_metadata(query, context_chunks, llm) ==
    IF context_chunks = <<>>
    THEN Ok([answer |-> MSG_NO_INFO, confidence |-> 0, needsEscalation |-> TRUE,
             reason |-> <<"No relevant documents found">>, sources |-> <<>>])
    ELSE LET kept == KeptChunks(context_chunks)
             texts == [i \in 1..Len(kept) |-> kept[i].text]
             sources == [i \in 1..Len(kept) |-> SourceOf(kept[i])]
             answer_result == _generate_answer_strict(query, texts, sources, llm)
             scores == [i \in 1..Len(sources) |-> sources[i].score]
             avg_similarity == IF scores # <<>> THEN Sum(scores) \div Len(scores) ELSE 0
             confidence == _calculate_confidence(avg_similarity, answer_result.answer, query)
         IN  IF ~IsStr(query) THEN Raised
             ELSE Ok([answer |-> answer_result.answer,
                      confidence |-> confidence,
                      needsEscalation |-> confidence < 600,
                      reason |-> _generate_reason(confidence, avg_similarity,
                                                  answer_result.answer),
                      sources |-> sources])

----------------------------------------------------------------------------
(* hr_chat_llm.py: JSON in the model's text.  A JSON object is the atoms   *)
(* "{", members separated by "," atoms, "}".  A member is one atom (key    *)
(* and scalar value) or a key atom followed by a nested object.            *)

A_STR == "\"answer\":\"Twenty days\""
A_NOINFO == "\"answer\":\"I don't have that information\""
A_BLANK == "\"answer\":\" \""
A_NUM == "\"answer\":20"
C_090 == "\"confidence\":0.9"
C_030 == "\"confidence\":0.3"
C_170 == "\"confidence\":1.7"
C_NEG == "\"confidence\":-0.2"
C_STR == "\"confidence\":\"0.85\""
C_BAD == "\"confidence\":\"high\""
C_NULL == "\"confidence\":null"
E_TRUE == "\"needsEscalation\":true"
E_FALSE == "\"needsEscalation\":false"
E_NULL == "\"needsEscalation\":null"
E_STR == "\"needsEscalation\":\"no\""
R_STR == "\"reason\":\"Stated in the leave policy\""
R_NUM == "\"reason\":7"
K_META == "\"meta\":"
\* A member whose value is an array nested deeper than the interpreter's
\* recursion limit allows json.loads to descend
K_DEEP == "\"meta\":[[[[...]]]]"

AnswerMembers == {A_STR, A_NOINFO, A_BLANK, A_NUM}
ConfidenceMembers == {C_090, C_030, C_170, C_NEG, C_STR, C_BAD, C_NULL}
EscalationMembers == {E_TRUE, E_FALSE, E_NULL, E_STR}
ReasonMembers == {R_STR, R_NUM}
ScalarMembers ==
    AnswerMembers \cup ConfidenceMembers \cup EscalationMembers \cup ReasonMembers

\* JSON values that are not objects: a number, an array, a string
JsonScalars == {"42", "[1]", "\"ok\""}

JsonKey(a) ==
    CASE a \in AnswerMembers -> "answer"
      [] a \in ConfidenceMembers -> "confidence"
      [] a \in EscalationMembers -> "needsEscalation"
      [] a \in ReasonMembers -> "reason"
      [] OTHER -> "meta"

\* A parsed object: per key the member atom that set it, "" when absent.
EmptyObj == [answer |-> "", confidence |-> "", needsEscalation |-> "",
             reason |-> "", meta |-> ""]

ParseFail == [ok |-> FALSE, raises |-> FALSE, end |-> 0, obj |-> EmptyObj]

\* The scanner gives up with RecursionError, which is no JSONDecodeError
ParseRaises == [ok |-> FALSE, raises |-> TRUE, end |-> 0, obj |-> EmptyObj]

RECURSIVE ParseObject(_, _)
RECURSIVE ParseMember(_, _, _)
RECURSIVE ParseAfterMember(_, _, _)

\* t[i] is "{": the object that starts there, and where its "}" is
ParseObject(t, i) ==
    IF i > Len(t) \/ t[i] # "{" THEN ParseFail
    ELSE IF i + 1 <= Len(t) /\ t[i + 1] = "}"
    THEN [ok |-> TRUE, raises |-> FALSE, end |-> i + 1, obj |-> EmptyObj]
    ELSE ParseMember(t, i + 1, EmptyObj)

ParseMember(t, i, obj) ==
    IF i > Len(t) THEN ParseFail
    ELSE IF t[i] \in ScalarMembers
    THEN ParseAfterMember(t, i + 1, [obj EXCEPT ![JsonKey(t[i])] = t[i]])
    ELSE IF t[i] = K_DEEP THEN ParseRaises
    ELSE IF t[i] = K_META
    THEN LET inner == ParseObject(t, i + 1)
         IN  IF inner.ok
             THEN ParseAfterMember(t, inner.end + 1, [obj EXCEPT !.meta = K_META])
             ELSE inner
    ELSE ParseFail

ParseAfterMember(t, i, obj) ==
    IF i > Len(t) THEN ParseFail
    ELSE IF t[i] = "}" THEN [ok |-> TRUE, raises |-> FALSE, end |-> i, obj |-> obj]
    ELSE IF t[i] = "," THEN ParseMember(t, i + 1, obj)
    ELSE ParseFail

NoSpace(t) == SelectSeq(t, LAMBDA a : ~IsSpace(a))

\* json.loads(s): [ok, raises, dict, obj]; ok = FALSE is JSONDecodeError
\* unless raises, which is an exception of another class
JsonLoads(s) ==
    LET t == NoSpace(s)
        o == ParseObject(t, 1)
    IN  IF Len(t) = 1 /\ t[1] \in JsonScalars
        THEN [ok |-> TRUE, raises |-> FALSE, dict |-> FALSE, obj |-> EmptyObj]
        ELSE IF o.raises
        THEN [ok |-> FALSE, raises |-> TRUE, dict |-> FALSE, obj |-> EmptyObj]
        ELSE IF o.ok /\ o.end = Len(t)
        THEN [ok |-> TRUE, raises |-> FALSE, dict |-> TRUE, obj |-> o.obj]
        ELSE [ok |-> FALSE, raises |-> FALSE, dict |-> FALSE, obj |-> EmptyObj]

\* The string value of an answer/reason member, NonStr for another JSON type.
MemberText(a) ==
    CASE a = A_STR -> Words(<<"Twenty", "days">>)
      [] a = A_NOINFO -> Words(<<"I", "don't", "have", "that", "information">>)
      [] a = A_BLANK -> <<" ">>
      [] a = R_STR -> Words(<<"Stated", "in", "the", "leave", "policy">>)
      [] OTHER -> NonStr

\* float(value): [ok, v]; ok = FALSE is ValueError or TypeError
MemberFloat(a) ==
    CASE a = C_090 -> [ok |-> TRUE, v |-> 900]
      [] a = C_030 -> [ok |-> TRUE, v |-> 300]
      [] a = C_170 -> [ok |-> TRUE, v |-> 1700]
      [] a = C_NEG -> [ok |-> TRUE, v |-> -200]
      [] a = C_STR -> [ok |-> TRUE, v |-> 850]
      [] OTHER -> [ok |-> FALSE, v |-> 0]

\* bool(value)
MemberBool(a) == a \in {E_TRUE, E_STR}

\* A markdown code fence is three backquotes; the backquote is not a
\* character of TLA+ strings, so the fence atoms are spelled with quotes.
FENCE == "'''"
FENCE_JSON == "'''json"

\* The code fences at both ends, removed as safe_parse_llm_json and
\* _extract_json_from_text remove them.
StripFences(text) ==
    LET t0 == strip(text)
        t1 == IF t0 # <<>> /\ Head(t0) \in {FENCE_JSON, FENCE}
              THEN strip(Tail(t0)) ELSE t0
    IN  IF t1 # <<>> /\ t1[Len(t1)] = FENCE
        THEN strip(SubSeq(t1, 1, Len(t1) - 1)) ELSE t1

\* Index of the "}" that closes the "{" at brace_start, 0 when there is none
RECURSIVE MatchBrace(_, _, _)
MatchBrace(t, i, brace_count) ==
    IF i > Len(t) THEN 0
    ELSE IF t[i] = "{" THEN MatchBrace(t, i + 1, brace_count + 1)
    ELSE IF t[i] = "}"
    THEN (IF brace_count = 1 THEN i ELSE MatchBrace(t, i + 1, brace_count - 1))
    ELSE MatchBrace(t, i + 1, brace_count)

RECURSIVE FirstIndex(_, _, _)
FirstIndex(t, a, i) ==
    IF i > Len(t) THEN 0 ELSE IF t[i] = a THEN i ELSE FirstIndex(t, a, i + 1)

\* End of the match of \{[^{}]*(?:\{[^{}]*\}[^{}]*)*\} that starts at the "{"
\* before position i (depth 1 = in the outer object, 2 = in a nested one);
\* 0 when the pattern does not match there.
RECURSIVE PatternEnd(_, _, _)
PatternEnd(t, i, depth) ==
    IF i > Len(t) THEN 0
    ELSE IF t[i] = "{"
    THEN (IF depth = 1 THEN PatternEnd(t, i + 1, 2) ELSE 0)
    ELSE IF t[i] = "}"
    THEN (IF depth = 1 THEN i ELSE PatternEnd(t, i + 1, 1))
    ELSE PatternEnd(t, i + 1, depth)

\* re.findall(json_pattern, text): the non-overlapping matches, left to right
RECURSIVE FindAll(_, _)
FindAll(t, i) ==
    IF i > Len(t) THEN <<>>
    ELSE IF t[i] # "{" THEN FindAll(t, i + 1)
    ELSE LET e == PatternEnd(t, i + 1, 1)
         IN  IF e = 0 THEN FindAll(t, i + 1)
             ELSE <<SubSeq(t, i, e)>> \o FindAll(t, e + 1)

\* What _extract_json_from_text gives when json.loads raised an exception
\* that its except json.JSONDecodeError clauses do not catch
Uncaught == <<"<uncaught exception>">>

\* try: json.loads(candidate); return candidate
\* except json.JSONDecodeError: otherwise
Validated(candidate, loaded, otherwise) ==
    IF loaded.raises THEN Uncaught
    ELSE IF loaded.ok THEN candidate
    ELSE otherwise

RECURSIVE FirstValid(_)
FirstValid(matches) ==
    IF matches = <<>> THEN None
    ELSE Validated(strip(Head(matches)), JsonLoads(strip(Head(matches))),
                   FirstValid(Tail(matches)))

\* Methods 2 and 3: by_regex is the first regex match that is valid JSON
ExtractOther(text_clean, by_regex) ==
    IF by_regex # None THEN by_regex
    ELSE Validated(text_clean, JsonLoads(text_clean), None)

\* Method 1: from the first "{" to the "}" that closes it
ExtractFirstBlock(text_clean, brace_start, brace_end) ==
    IF brace_start # 0 /\ brace_end # 0
    THEN Validated(strip(SubSeq(text_clean, brace_start, brace_end)),
                   JsonLoads(strip(SubSeq(text_clean, brace_start, brace_end))),
                   ExtractOther(text_clean, FirstValid(FindAll(text_clean, 1))))
    ELSE ExtractOther(text_clean, FirstValid(FindAll(text_clean, 1)))

ExtractFrom(text_clean, brace_start) ==
    ExtractFirstBlock(text_clean, brace_start,
                      IF brace_start = 0 THEN 0
                      ELSE MatchBrace(text_clean, brace_start, 0))

ExtractClean(text_clean) ==
    ExtractFrom(text_clean, FirstIndex(text_clean, "{", 1))

_extract_json_from_text(text) ==
    IF ~Truthy(text) \/ ~IsStr(text) THEN None
    ELSE ExtractClean(StripFences(text))

MSG_UNABLE_GENERATE ==
    Sentence(<<"Unable", "to", "generate", "a", "response">>) \o <<" ">>
        \o PLEASE_CONTACT_HR

PlainText(text_clean, default_confidence) ==
    [answer |-> text_clean,
     confidence |-> Clamp(default_confidence),
     needsEscalation |-> default_confidence < 600,
     reason |-> <<>>]

\* Lines 717-751: the fields of a parsed object, with the safe defaults
ParsedFields(text_clean, obj, default_confidence) ==
    LET got == MemberText(obj.answer)
        answer == IF obj.answer = "" \/ got = <<>> \/ ~IsStr(got)
                  THEN text_clean ELSE got
        float == MemberFloat(obj.confidence)
        confidence == IF obj.confidence # "" /\ float.ok THEN Clamp(float.v)
                      ELSE Clamp(default_confidence)
        needs_escalation == IF obj.needsEscalation = "" THEN confidence < 600
                            ELSE MemberBool(obj.needsEscalation)
        rsn == MemberText(obj.reason)
        reason == IF obj.reason = "" \/ ~IsStr(rsn) THEN <<>> ELSE rsn
    IN  [answer |-> strip(answer),
         confidence |-> Round2(confidence),
         needsEscalation |-> needs_escalation,
         reason |-> strip(reason)]

\* Line 703 on: parsed is json.loads of the extracted block
ParseExtracted(text_clean, parsed, default_confidence) ==
    IF ~parsed.ok \/ ~parsed.dict THEN PlainText(text_clean, default_confidence)
    ELSE ParsedFields(text_clean, parsed.obj, default_confidence)

\* Line 694 on: json_text is what _extract_json_from_text returned; the
\* call is outside the try block, so what it raises leaves the function
ParseBlock(text_clean, json_text, default_confidence) ==
    IF json_text = Uncaught THEN Raised
    ELSE IF ~Truthy(json_text) THEN Ok(PlainText(text_clean, default_confidence))
    ELSE Ok(ParseExtracted(text_clean, JsonLoads(json_text), default_confidence))

\* Line 695 on: text_clean is the response without its code fences
ParseClean(text_clean, default_confidence) ==
    ParseBlock(text_clean, _extract_json_from_text(text_clean), default_confidence)

safe_parse_llm_json(response_text, default_confidence) ==
    IF ~Truthy(response_text) \/ ~IsStr(response_text)
    THEN Ok([answer |-> MSG_UNABLE_GENERATE, confidence |-> 0,
             needsEscalation |-> TRUE,
             reason |-> Words(<<"Empty", "or", "invalid", "LLM", "response">>)])
    ELSE ParseClean(StripFences(response_text), default_confidence)

MSG_UNABLE == Sentence(<<"Unable", "to", "confidently", "answer", "based", "on",
                         "HR", "documents">>)

MSG_TROUBLE ==
    Sentence(<<"I'm", "having", "trouble", "generating", "a", "response",
               "right", "now">>) \o <<" ">> \o PLEASE_CONTACT_HR

REASON_UNAVAILABLE == Words(<<"LLM", "response", "unavailable", "or", "invalid">>)

_get_fallback_response(reason) ==
    [answer |-> MSG_UNABLE, confidence |-> 0, needsEscalation |-> TRUE,
     reason |-> reason]

\* response is a dict whose confidence is a float and whose flag is a bool,
\* as generate_response builds it
_ensure_valid_response(response) ==
    LET answer == IF ~Truthy(response.answer) \/ ~IsStr(response.answer)
                  THEN MSG_UNABLE ELSE response.answer
        confidence == Clamp(response.confidence)
        reason == IF ~Truthy(response.reason) \/ ~IsStr(response.reason)
                  THEN REASON_UNAVAILABLE ELSE response.reason
    IN  [answer |-> strip(answer),
         confidence |-> Round2(confidence),
         needsEscalation |-> response.needsEscalation,
         reason |-> strip(reason)]

\* The provider's client: llm.kind is what the chat-completions call does.
_call_groq_llm(question, documents_context, llm) ==
    IF llm.provider # "groq" THEN None
    ELSE IF llm.kind = "no_client" THEN None
    ELSE TryExcept(ExtractContent(llm), Ok(None)).val

_call_openai_llm(question, documents_context, llm) ==
    IF llm.provider # "openai" THEN None
    ELSE IF llm.kind = "no_client" THEN None
    ELSE TryExcept(ExtractContent(llm), Ok(None)).val

\* text.split('.'): the pieces between the period atoms
RECURSIVE SplitPeriod(_, _)
SplitPeriod(t, piece) ==
    IF t = <<>> THEN <<piece>>
    ELSE IF Head(t) = "." THEN <<piece>> \o SplitPeriod(Tail(t), <<>>)
    ELSE SplitPeriod(Tail(t), Append(piece, Head(t)))

\* response[:300] + "..." for a text of more than 300 characters; the cut is
\* taken at the last atom that ends within the first 300 characters.
RECURSIVE Prefix300(_, _)
Prefix300(t, room) ==
    IF t = <<>> \/ Len(Head(t)) > room THEN <<>>
    ELSE <<Head(t)>> \o Prefix300(Tail(t), room - Len(Head(t)))

MockGeneric(question) ==
    Words(<<"Based", "on", "the", "HR", "documents", "provided,", "I", "can",
            "help", "answer", "your", "question", "about">>)
        \o <<" ", "'">> \o question \o <<"'", ".", " ">>
        \o Sentence(<<"Please", "review", "the", "relevant", "policy",
                      "sections", "in", "the", "documents", "above", "for",
                      "detailed", "information">>)

_call_mock_llm(question, documents_context) ==
    LET documents_lower == lower(documents_context)
        keywords == split(lower(question))
        relevant_keywords ==
            SelectSeq(keywords,
                      LAMBDA kw : StrLen(kw) > 3 /\ Contains(documents_lower, kw))
        sentences == SplitPeriod(documents_context, <<>>)
        IsRelevant(sn) ==
            \E k \in 1..Len(relevant_keywords) :
                Contains(lower(sn), relevant_keywords[k])
        relevant_sentences == SelectSeq(sentences, IsRelevant)
        response == strip(relevant_sentences[1])
    IN  IF relevant_keywords # <<>> /\ relevant_sentences # <<>>
        THEN (IF StrLen(response) > 300
              THEN Prefix300(response, 300) \o <<"...">> ELSE response)
        ELSE MockGeneric(question)

\* config.py lines 21-26: os.getenv("LLM_PROVIDER", "mock").lower(), and
\* "mock" for a value that is none of the three.  env is the variable of
\* the environment, "<unset>" when there is none.
ConfiguredProvider(env) ==
    CASE env \in {"groq", "GROQ"} -> "groq"
      [] env \in {"openai", "OpenAI"} -> "openai"
      [] OTHER -> "mock"

\* _call_llm routing everything but openai to Groq
RouteProviderGroqDefault(provider) ==
    IF provider = "openai" THEN "_call_openai_llm" ELSE "_call_groq_llm"

\* Lines 362-368: the provider function _call_llm calls
RouteProvider(provider) ==
    IF provider = "groq" THEN "_call_groq_llm"
    ELSE IF provider = "openai" THEN "_call_openai_llm"
    ELSE "_call_mock_llm"

_call_llm(question, documents_context, llm) ==
    LET target == RouteProvider(llm.provider)
    IN  IF target = "_call_groq_llm"
        THEN _call_groq_llm(question, documents_context, llm)
        ELSE IF target = "_call_openai_llm"
        THEN _call_openai_llm(question, documents_context, llm)
        ELSE _call_mock_llm(question, documents_context)

ExcerptLabel(i) == CASE i = 1 -> "1]" [] i = 2 -> "2]" [] i = 3 -> "3]" [] OTHER -> "4]"

\* "\n\n".join(f"[Document Excerpt {i+1}]\n{doc}" ...)
RECURSIVE JoinExcerpts(_, _)
JoinExcerpts(valid_docs, i) ==
    IF i > Len(valid_docs) THEN <<>>
    ELSE (IF i > 1 THEN <<"\n\n">> ELSE <<>>)
         \o <<"[Document", " ", "Excerpt", " ", ExcerptLabel(i), "\n">>
         \o valid_docs[i] \o JoinExcerpts(valid_docs, i + 1)

NoDocumentsResponse(reason) ==
    [answer |-> MSG_NO_INFO, confidence |-> 0, needsEscalation |-> TRUE,
     reason |-> reason]

TroubleResponse(reason) ==
    [answer |-> MSG_TROUBLE, confidence |-> 0, needsEscalation |-> TRUE,
     reason |-> reason]

BandReason(confidence) ==
    IF confidence >= 800
    THEN Words(<<"Answer", "is", "explicitly", "stated", "in", "the", "HR",
                 "documents">>)
    ELSE IF confidence >= 500
    THEN Words(<<"Answer", "is", "partially", "stated", "in", "the", "HR",
                 "documents", "or", "requires", "interpretation">>)
    ELSE Words(<<"Answer", "is", "unclear", "or", "missing", "from", "the",
                 "HR", "documents">>)

\* Lines 293-318: the envelope built from the parsed result
FromParsedFields(parsed_result) ==
    _ensure_valid_response(
        [answer |-> parsed_result.answer,
         confidence |-> Round2(parsed_result.confidence),
         needsEscalation |-> parsed_result.needsEscalation,
         reason |-> IF ~Truthy(parsed_result.reason)
                    THEN BandReason(parsed_result.confidence)
                    ELSE parsed_result.reason])

\* Line 283: what safe_parse_llm_json raises goes to the except clause
FromParsed(parsed) ==
    IF parsed.exc THEN Raised ELSE Ok(FromParsedFields(parsed.val))

\* Lines 268-272: the mean of the similarity scores, 0.6 without any
ComputedConfidence(similarity_scores) ==
    IF similarity_scores.kind = "list" /\ similarity_scores.items # <<>>
    THEN Clamp(Sum(similarity_scores.items) \div Len(similarity_scores.items))
    ELSE 600

\* Lines 230-318: llm_response is what _call_llm returned
FromLLM(llm_response, similarity_scores) ==
    IF llm_response = None
    THEN Ok(TroubleResponse(Words(<<"LLM", "did", "not", "return", "a",
                                    "response">>)))
    ELSE IF ~IsStr(llm_response)
    THEN Ok(TroubleResponse(Words(<<"LLM", "returned", "invalid",
                                    "response", "type">>)))
    ELSE IF strip(llm_response) = <<>>
    THEN Ok(TroubleResponse(Words(<<"LLM", "returned", "empty", "response">>)))
    ELSE IF similarity_scores.kind = "bad" THEN Raised
    ELSE FromParsed(safe_parse_llm_json(strip(llm_response),
                        ComputedConfidence(similarity_scores)))

\* Lines 222-318 of generate_response: the body of its try block
GenerateResponseTry(question, valid_docs, similarity_scores, llm) ==
    FromLLM(_call_llm(question, JoinExcerpts(valid_docs, 1), llm),
            similarity_scores)

generate_response(question, document_texts, similarity_scores, llm) ==
    IF ~Truthy(question) \/ ~IsStr(question) \/ strip(question) = <<>>
    THEN _get_fallback_response(Words(<<"Invalid", "question", "provided">>))
    ELSE IF document_texts.kind # "list" \/ document_texts.items = <<>>
    THEN NoDocumentsResponse(Words(<<"No", "relevant", "HR", "documents",
                                     "found">>))
    ELSE IF ValidChunks(document_texts.items) = <<>>
    THEN NoDocumentsResponse(Words(<<"No", "valid", "document", "content",
                                     "available">>))
    ELSE TryExcept(GenerateResponseTry(question,
                                       ValidChunks(document_texts.items),
                                       similarity_scores, llm),
                   Ok(_get_fallback_response(
                          Words(<<"Error", "processing", "response">>)))).val

----------------------------------------------------------------------------
(* Whether a call gets to a model provider: to the create() call of the    *)
(* OpenAI client in answer_generator.py (lines 131 and 422), to _call_llm  *)
(* in hr_chat_llm.py (line 224).                                           *)

\* Lines 92-131 and 383-422: without a client the function returns before
\* the request is made
ClientInvoked(llm) == llm.kind # "no_client"

\* generate_answer reaches line 68 and _generate_with_llm the request
generate_answer_invokes(query, context_chunks, llm) ==
    /\ Truthy(query) /\ IsStr(query)
    /\ context_chunks.kind = "list" /\ context_chunks.items # <<>>
    /\ ValidChunks(context_chunks.items) # <<>>
    /\ ClientInvoked(llm)

\* generate_answer_with_metadata calls _generate_answer_strict with the
\* texts it kept (line 309); that one reaches line 355 when texts is not
\* empty
generate_answer_with_metadata_invokes(query, context_chunks, llm) ==
    /\ context_chunks # <<>>
    /\ KeptChunks(context_chunks) # <<>>
    /\ ClientInvoked(llm)

\* generate_response reaches _call_llm, which calls one of the providers,
\* the mock included
generate_response_invokes(question, document_texts, llm) ==
    /\ Truthy(question) /\ IsStr(question) /\ strip(question) # <<>>
    /\ document_texts.kind = "list" /\ document_texts.items # <<>>
    /\ ValidChunks(document_texts.items) # <<>>

\* The provider functions one call of _call_llm enters, in order
ProvidersCalled(llm) == <<RouteProvider(llm.provider)>>

\* The request goes out to Groq (line 414) or to OpenAI: the function was
\* entered, its guard on LLM_PROVIDER passed and there is a client
NetworkCalled(llm) ==
    \/ /\ RouteProvider(llm.provider) = "_call_groq_llm"
       /\ llm.provider = "groq" /\ ClientInvoked(llm)
    \/ /\ RouteProvider(llm.provider) = "_call_openai_llm"
       /\ llm.provider = "openai" /\ ClientInvoked(llm)

----------------------------------------------------------------------------
(* semantic_search.py and the index of app.py.  A vector is modelled by    *)
(* the text it encodes; the similarity of a vector to a query is an input. *)

Encode(text) == [of |-> text]

\* The value of a vectors variable: None, or an array with one row per text
NoVectors == [none |-> TRUE, rows |-> <<>>]
Array(rows) == [none |-> FALSE, rows |-> rows]

DictChunk(id, text) == [kind |-> "dict", chunk_id |-> id, text |-> text]

RECURSIVE ChunkTexts(_)
ChunkTexts(items) ==
    IF items = <<>> THEN <<>>
    ELSE LET chunk == Head(items)
             text == chunk.text
         IN  IF Truthy(text) /\ IsStr(text) /\ strip(text) # <<>>
             THEN <<strip(text)>> \o ChunkTexts(Tail(items))
             ELSE ChunkTexts(Tail(items))

\* model.encode(texts): one vector per text
EncodeAll(texts) == Array([i \in 1..Len(texts) |-> Encode(texts[i])])

\* embed_chunks with a vector for every chunk, the blank ones included
embed_chunks_unfiltered(chunks, embedder_state) ==
    IF chunks.kind # "list" \/ chunks.items = <<>> THEN <<NoVectors, <<>>>>
    ELSE IF embedder_state # "ok" THEN <<NoVectors, <<>>>>
    ELSE IF ChunkTexts(chunks.items) = <<>> THEN <<NoVectors, <<>>>>
    ELSE <<EncodeAll([i \in 1..Len(chunks.items) |-> chunks.items[i].text]),
           ChunkTexts(chunks.items)>>

\* chunks = [kind, items]; embedder = "ok" when sentence-transformers can be
\* imported and the model loads.  Returns the pair (embeddings, texts).
embed_chunks(chunks, embedder_state) ==
    IF chunks.kind # "list" \/ chunks.items = <<>> THEN <<NoVectors, <<>>>>
    ELSE IF embedder_state # "ok" THEN <<NoVectors, <<>>>>
    ELSE IF ChunkTexts(chunks.items) = <<>> THEN <<NoVectors, <<>>>>
    ELSE <<EncodeAll(ChunkTexts(chunks.items)), ChunkTexts(chunks.items)>>

\* np.argsort(similarities): ascending, equal values in index order
\* (the sort of a short array is stable).  Insert index i into sorted idxs.
RECURSIVE InsertAsc(_, _, _)
InsertAsc(idxs, i, sim) ==
    IF idxs = <<>> THEN <<i>>
    ELSE IF sim[Head(idxs)] <= sim[i]
    THEN <<Head(idxs)>> \o InsertAsc(Tail(idxs), i, sim)
    ELSE <<i>> \o idxs

RECURSIVE ArgsortUpTo(_, _)
ArgsortUpTo(sim, n) ==
    IF n = 0 THEN <<>> ELSE InsertAsc(ArgsortUpTo(sim, n - 1), n, sim)

argsort(sim) == ArgsortUpTo(sim, Len(sim))

\* The indices in ascending order, left as they are
NotReversed(q) == q

Reverse(q) == [i \in 1..Len(q) |-> q[Len(q) + 1 - i]]

\* The results with the 0-based index of numpy as chunk_id
TopResultsZeroBased(texts, top_k, similarities) ==
    LET k == Min(top_k, Len(similarities))
        top_indices == SubSeq(Reverse(argsort(similarities)), 1, k)
    IN  [j \in 1..k |->
            [chunk_id |-> top_indices[j] - 1,
             text |-> texts[top_indices[j]],
             score |-> similarities[top_indices[j]]]]

\* Lines 165-185: the results for the top_k highest similarities
TopResults(texts, top_k, similarities) ==
    LET k == Min(top_k, Len(similarities))
        top_indices == SubSeq(Reverse(argsort(similarities)), 1, k)
    IN  [j \in 1..k |->
            [chunk_id |-> top_indices[j],
             text |-> texts[top_indices[j]],
             score |-> similarities[top_indices[j]]]]

\* search_similar_chunks without its checks of vectors and texts: the model
\* is loaded and the error of the mismatch is caught
SearchRunUnchecked(query, vectors, texts, top_k, similarities, embedder_state) ==
    IF ~Truthy(query) \/ ~IsStr(query) \/ strip(query) = <<>>
    THEN [results |-> <<>>, encoded |-> FALSE]
    ELSE IF top_k <= 0 THEN [results |-> <<>>, encoded |-> FALSE]
    ELSE IF embedder_state # "ok" THEN [results |-> <<>>, encoded |-> TRUE]
    ELSE IF vectors.none \/ Len(vectors.rows) # Len(texts) \/ Len(texts) = 0
    THEN [results |-> <<>>, encoded |-> TRUE]
    ELSE [results |-> TopResults(texts, top_k, similarities), encoded |-> TRUE]

\* The body of search_similar_chunks: what it returns, and whether it got
\* as far as loading the model and encoding the query (lines 153-163).
\* similarities[i] is np.dot(vectors, query_embedding)[i]; chunk_id is the
\* 1-based position of the chunk in the index.
SearchRun(query, vectors, texts, top_k, similarities, embedder_state) ==
    IF ~Truthy(query) \/ ~IsStr(query) \/ strip(query) = <<>>
    THEN [results |-> <<>>, encoded |-> FALSE]
    ELSE IF vectors.none \/ Len(vectors.rows) = 0
    THEN [results |-> <<>>, encoded |-> FALSE]
    ELSE IF Len(texts) = 0 THEN [results |-> <<>>, encoded |-> FALSE]
    ELSE IF Len(vectors.rows) # Len(texts)
    THEN [results |-> <<>>, encoded |-> FALSE]
    ELSE IF top_k <= 0 THEN [results |-> <<>>, encoded |-> FALSE]
    ELSE IF embedder_state # "ok" THEN [results |-> <<>>, encoded |-> TRUE]
    ELSE [results |-> TopResults(texts, top_k, similarities), encoded |-> TRUE]

search_similar_chunks(query, vectors, texts, top_k, similarities, embedder_state) ==
    SearchRun(query, vectors, texts, top_k, similarities, embedder_state).results

T_LEAVE == Sentence(<<"Employees", "receive", "twenty", "days", "of", "annual",
                      "leave">>)
T_SICK == Sentence(<<"Sick", "leave", "requires", "a", "medical", "certificate">>)

\* extract_text_from_pdf followed by clean_and_chunk for the files of the
\* model: [raises, texts]; no text or no chunks is texts = <<>>.
PdfChunks(filename) ==
    CASE filename = "leave.pdf" -> [raises |-> FALSE, texts |-> <<T_LEAVE>>]
      [] filename = "handbook.pdf" -> [raises |-> FALSE, texts |-> <<T_LEAVE, T_SICK>>]
      [] filename = "scan.pdf" -> [raises |-> FALSE, texts |-> <<>>]
      [] OTHER -> [raises |-> TRUE, texts |-> <<>>]

\* The loop over pdf_files with every document's chunks numbered from 1, as
\* chunk_text numbered them
RECURSIVE ProcessPdfsKeepIds(_, _)
ProcessPdfsKeepIds(pdf_files, chunk_id_counter) ==
    IF pdf_files = <<>> THEN <<>>
    ELSE LET r == PdfChunks(Head(pdf_files))
             chunks == IF r.raises THEN <<>>
                       ELSE [i \in 1..Len(r.texts) |->
                               [kind |-> "dict",
                                chunk_id |-> i,
                                text |-> r.texts[i],
                                document_filename |-> Head(pdf_files)]]
         IN  chunks \o ProcessPdfsKeepIds(Tail(pdf_files), chunk_id_counter)

\* The loop over pdf_files: all_chunks with chunk_id_counter running on
RECURSIVE ProcessPdfs(_, _)
ProcessPdfs(pdf_files, chunk_id_counter) ==
    IF pdf_files = <<>> THEN <<>>
    ELSE LET r == PdfChunks(Head(pdf_files))
             chunks == IF r.raises THEN <<>>
                       ELSE [i \in 1..Len(r.texts) |->
                               [kind |-> "dict",
                                chunk_id |-> chunk_id_counter + i - 1,
                                text |-> r.texts[i],
                                document_filename |-> Head(pdf_files)]]
         IN  chunks \o ProcessPdfs(Tail(pdf_files), chunk_id_counter + Len(chunks))

ReindexMetadata(all_chunks) ==
    [i \in 1..Len(all_chunks) |->
        [chunk_id |-> all_chunks[i].chunk_id,
         document_filename |-> all_chunks[i].document_filename]]

\* Lines 297-375 of reindex_hr_documents: everything before the globals are
\* assigned.  env.modules is FALSE when the import block of app.py set
\* extract_text_from_pdf and clean_and_chunk to None.
BuildIndex(env) ==
    LET all_chunks == ProcessPdfs(env.pdfs, 1)
        pair == embed_chunks([kind |-> "list", items |-> all_chunks], env.embedder)
        failed == [ok |-> FALSE, embeddings |-> NoVectors, chunk_texts |-> <<>>,
                   chunks_metadata |-> <<>>]
    IN  IF ~env.modules THEN failed
        ELSE IF env.pdfs = <<>> THEN failed
        ELSE IF all_chunks = <<>> THEN failed
        ELSE IF pair[1].none \/ pair[2] = <<>> THEN failed
        ELSE [ok |-> TRUE, embeddings |-> pair[1], chunk_texts |-> pair[2],
              chunks_metadata |-> ReindexMetadata(all_chunks)]

\* reindex_hr_documents assigning what embed_chunks returned to the globals
\* before it looks at it, as load_chunks_and_embeddings does at line 253
reindex_hr_documents_assign_first(st, env) ==
    LET b == BuildIndex(env)
    IN  IF ~b.ok
        THEN [ok |-> FALSE,
              st |-> [st EXCEPT !.embeddings = b.embeddings,
                                !.chunk_texts = b.chunk_texts]]
        ELSE [ok |-> TRUE,
              st |-> [embeddings |-> b.embeddings,
                      chunk_texts |-> b.chunk_texts,
                      chunks_metadata |-> b.chunks_metadata,
                      loaded |-> TRUE]]

\* st is the four globals; the result is the return value and the globals
reindex_hr_documents(st, env) ==
    LET b == BuildIndex(env)
    IN  IF ~b.ok THEN [ok |-> FALSE, st |-> st]
        ELSE [ok |-> TRUE,
              st |-> [embeddings |-> b.embeddings,
                      chunk_texts |-> b.chunk_texts,
                      chunks_metadata |-> b.chunks_metadata,
                      loaded |-> TRUE]]

SampleTopic(i) ==
    CASE i = 1 -> "purpose" [] i = 2 -> "leave" [] i = 3 -> "requests"
      [] i = 4 -> "sick" [] i = 5 -> "benefits" [] i = 6 -> "statement"
      [] i = 7 -> "insurance" [] OTHER -> "retirement"

SampleCount == 8

_get_sample_chunks ==
    [kind |-> "list",
     items |-> [i \in 1..SampleCount |->
                  DictChunk(i, Sentence(<<"Sample", "policy", SampleTopic(i)>>))]]

\* json.load of the chunks file: [raises, kind, items]
ChunksFromFile(chunks_file) ==
    CASE chunks_file = "empty" ->
            [raises |-> FALSE, kind |-> "list", items |-> <<>>]
      [] chunks_file = "blank" ->
            [raises |-> FALSE, kind |-> "list", items |-> <<DictChunk(1, <<" ">>)>>]
      [] chunks_file = "mixed" ->
            [raises |-> FALSE, kind |-> "list",
             items |-> <<DictChunk(1, T_LEAVE), DictChunk(2, <<" ">>),
                         [kind |-> "str", text |-> T_SICK]>>]
      [] chunks_file = "object" ->
            [raises |-> FALSE, kind |-> "dict", items |-> <<DictChunk(1, T_LEAVE)>>]
      [] chunks_file = "numbered" ->
            [raises |-> FALSE, kind |-> "list",
             items |-> <<DictChunk(7, <<" ">>), DictChunk(8, T_SICK),
                         DictChunk(9, T_LEAVE)>>]
      [] OTHER -> [raises |-> TRUE, kind |-> "list", items |-> <<>>]

RECURSIVE LoadMetadata(_)
LoadMetadata(items) ==
    IF items = <<>> THEN <<>>
    ELSE IF Head(items).kind = "dict"
    THEN <<[chunk_id |-> Head(items).chunk_id]>> \o LoadMetadata(Tail(items))
    ELSE LoadMetadata(Tail(items))

\* load_chunks_and_embeddings() as the server calls it (chunks = None)
load_chunks_and_embeddings(st, env) ==
    LET viaReindex == reindex_hr_documents(st, env)
        file == ChunksFromFile(env.chunks_file)
        chunks == IF env.pdfs # <<>> THEN _get_sample_chunks
                  ELSE IF env.chunks_file # "absent"
                  THEN [kind |-> file.kind, items |-> file.items]
                  ELSE _get_sample_chunks
        pair == embed_chunks(chunks, env.embedder)
        assigned == [st EXCEPT !.embeddings = pair[1], !.chunk_texts = pair[2]]
    IN  IF st.loaded THEN [ok |-> TRUE, st |-> st]
        ELSE IF env.pdfs # <<>> /\ viaReindex.ok THEN viaReindex
        ELSE IF env.pdfs = <<>> /\ env.chunks_file # "absent" /\ file.raises
        THEN [ok |-> FALSE, st |-> st]
        ELSE IF chunks.items = <<>> THEN [ok |-> FALSE, st |-> st]
        ELSE IF pair[1].none \/ pair[2] = <<>>
        THEN [ok |-> FALSE, st |-> assigned]
        ELSE [ok |-> TRUE,
              st |-> [assigned EXCEPT !.chunks_metadata = LoadMetadata(chunks.items),
                                      !.loaded = TRUE]]

----------------------------------------------------------------------------
(* app.py: the /chat handler.  request = [question, user_id, chat_id];     *)
(* st = the four globals; env = what the disk, the embedding library and   *)
(* the import block give; similarities = the scores the query gets against *)
(* the vectors; fault = an exception is raised inside the try block.       *)

TopK == 3

ChatResponse(data, sources, chat_id) ==
    [answer |-> data.answer, confidence |-> data.confidence,
     needsEscalation |-> data.needsEscalation, reason |-> data.reason,
     sources |-> sources, chat_id |-> chat_id]

HttpError(code, st) ==
    [status |-> code, body |-> None, st |-> st, saved |-> FALSE,
     escalated |-> FALSE]

HttpOk(body, st, saved, escalated) ==
    [status |-> 200, body |-> body, st |-> st, saved |-> saved,
     escalated |-> escalated]

\* Lines 590-637: result is what the LLM service returned
ChatResult(user_id, chat_id, search_results, result, st) ==
    HttpOk(ChatResponse([result EXCEPT !.confidence = Round2(Clamp(result.confidence))],
                        [i \in 1..Len(search_results) |->
                            [chunk_id |-> search_results[i].chunk_id,
                             score |-> search_results[i].score]],
                        chat_id),
           st, user_id # None, user_id # None /\ result.needsEscalation)

\* Lines 562-588: the retrieved chunks go to the LLM service, which is None
\* when the import block fell back
ChatAnswer(question, user_id, chat_id, search_results, st, env, llm) ==
    ChatResult(user_id, chat_id, search_results,
        IF env.modules
        THEN generate_response(question,
                 [kind |-> "list",
                  items |-> [i \in 1..Len(search_results) |-> search_results[i].text]],
                 [kind |-> "list",
                  items |-> [i \in 1..Len(search_results) |-> search_results[i].score]],
                 llm)
        ELSE [answer |-> MSG_UNABLE, confidence |-> 0, needsEscalation |-> TRUE,
              reason |-> Words(<<"LLM", "service", "not", "available">>)],
        st)

NoResultsResponse ==
    [answer |-> MSG_NO_INFO, confidence |-> 0, needsEscalation |-> TRUE,
     reason |-> Words(<<"No", "relevant", "documents", "found">>)]

ChatFallbackResponse ==
    [answer |-> MSG_UNABLE, confidence |-> 0, needsEscalation |-> TRUE,
     reason |-> REASON_UNAVAILABLE]

\* Lines 532-637: search_results is what search_similar_chunks returned
ChatSearched(question, user_id, chat_id, search_results, st, env, llm) ==
    IF search_results = <<>>
    THEN HttpOk(ChatResponse(NoResultsResponse, <<>>, chat_id), st,
                user_id # None, user_id # None)
    ELSE ChatAnswer(question, user_id, chat_id, search_results, st, env, llm)

\* Lines 522-674: st is the globals once the index is loaded
ChatTry(request, chat_id, st, env, similarities, llm, fault) ==
    IF fault
    THEN HttpOk(ChatResponse(ChatFallbackResponse, <<>>, request.chat_id), st,
                request.user_id # None, FALSE)
    ELSE ChatSearched(strip(request.question), request.user_id, chat_id,
             search_similar_chunks(strip(request.question), st.embeddings,
                 st.chunk_texts, TopK,
                 SubSeq(similarities, 1, Len(st.embeddings.rows)), env.embedder),
             st, env, llm)

\* Lines 515-520: ld is what load_chunks_and_embeddings returned
ChatLoaded(request, chat_id, ld, env, similarities, llm, fault) ==
    IF ~ld.ok THEN HttpError(503, ld.st)
    ELSE ChatTry(request, chat_id, ld.st, env, similarities, llm, fault)

chat(request, st, env, similarities, llm, fault) ==
    IF ~Truthy(request.question) \/ strip(request.question) = <<>>
    THEN HttpError(400, st)
    ELSE ChatLoaded(request,
             IF request.chat_id = None /\ request.user_id # None
             THEN <<"new-session">> ELSE request.chat_id,
             IF st.loaded THEN [ok |-> TRUE, st |-> st]
             ELSE load_chunks_and_embeddings(st, env),
             env, similarities, llm, fault)

----------------------------------------------------------------------------
(* text_chunker.py.  The text of a document is a sequence of atoms [t, n]. *)
(* With n = 1 the atom is the string t: a word of letters, a number, a run *)
(* of periods, one space or one newline.  With n > 1 it is n copies of the *)
(* lower-case word t separated by single spaces, so that a paragraph of    *)
(* 400 words is a handful of atoms.  Atoms that are not whitespace and     *)
(* stand next to each other form one word, as their characters do.         *)

Atom(s) == [t |-> s, n |-> 1]
Run(s, n) == [t |-> s, n |-> n]
SP == Atom(" ")
NL == Atom("\n")

\* A value that is not a str
NonText == <<[t |-> "<int>", n |-> 0]>>

\* \s
IsWs(a) == a.t \in {" ", "\n"}
\* \d+
IsDigits(a) == a.t \in {"1", "2", "10"}
\* a run of periods, ending in [.!?]
IsDots(a) == a.t \in {".", "..."}
\* \w+
IsAlnum(a) == a.t # "" /\ ~IsWs(a) /\ ~IsDots(a)
\* letters only, at least two of them
IsLetters(a) == IsAlnum(a) /\ ~IsDigits(a)
\* the atom starts with [A-Z]
IsUpper(a) == a.t \in {"Page", "PAGE", "Leave", "Table", "Contents", "Acme", "Next"}

\* len() of the atom
CharLen(a) == a.n * Len(a.t) + (a.n - 1)

RECURSIVE TextLen(_)
TextLen(t) == IF t = <<>> THEN 0 ELSE CharLen(Head(t)) + TextLen(Tail(t))

RECURSIVE LStripText(_)
LStripText(t) == IF t # <<>> /\ IsWs(Head(t)) THEN LStripText(Tail(t)) ELSE t

RECURSIVE RStripText(_)
RStripText(t) ==
    IF t # <<>> /\ IsWs(t[Len(t)]) THEN RStripText(SubSeq(t, 1, Len(t) - 1))
    ELSE t

\* s.strip()
StripText(t) == RStripText(LStripText(t))

\* sep.join(pieces)
RECURSIVE JoinText(_, _)
JoinText(pieces, sep) ==
    IF pieces = <<>> THEN <<>>
    ELSE IF Len(pieces) = 1 THEN pieces[1]
    ELSE pieces[1] \o sep \o JoinText(Tail(pieces), sep)

\* s.split(sep) for a separator of one or two newlines
RECURSIVE SplitOn(_, _, _)
SplitOn(t, sep, cur) ==
    IF t = <<>> THEN <<cur>>
    ELSE IF Len(t) >= Len(sep) /\ SubSeq(t, 1, Len(sep)) = sep
    THEN <<cur>> \o SplitOn(SubSeq(t, Len(sep) + 1, Len(t)), sep, <<>>)
    ELSE SplitOn(Tail(t), sep, Append(cur, Head(t)))

\* [p.strip() for p in pieces if p.strip()]
RECURSIVE StrippedNonEmpty(_)
StrippedNonEmpty(pieces) ==
    IF pieces = <<>> THEN <<>>
    ELSE (IF StripText(Head(pieces)) # <<>> THEN <<StripText(Head(pieces))>>
          ELSE <<>>) \o StrippedNonEmpty(Tail(pieces))

\* len(text.split()) from the atoms on: inword is TRUE when the atom before
\* was not whitespace, so that the first word of this atom continues it
RECURSIVE CountFrom(_, _)
CountFrom(t, inword) ==
    IF t = <<>> THEN 0
    ELSE IF IsWs(Head(t)) THEN CountFrom(Tail(t), FALSE)
    ELSE (IF inword THEN Head(t).n - 1 ELSE Head(t).n) + CountFrom(Tail(t), TRUE)

count_words(text) == IF text = <<>> THEN 0 ELSE CountFrom(text, FALSE)

\* ' '.join(t.split()[-need:]) read from atom i leftwards.  need is the
\* number of words still to begin, inword says that the atom to the right
\* belongs to a word that continues into this one, later that some word
\* was already taken.
RECURSIVE LastWordsFrom(_, _, _, _, _)
LastWordsFrom(t, i, need, inword, later) ==
    IF i = 0 THEN <<>>
    ELSE IF IsWs(t[i])
    THEN (IF need = 0 THEN <<>> ELSE LastWordsFrom(t, i - 1, need, FALSE, later))
    ELSE LET a == t[i]
             fresh == IF inword THEN a.n - 1 ELSE a.n
             sep == IF ~inword /\ later THEN <<SP>> ELSE <<>>
         IN  IF fresh <= need
             THEN LastWordsFrom(t, i - 1, need - fresh, TRUE, TRUE) \o <<a>> \o sep
             ELSE <<Run(a.t, a.n - (fresh - need))>> \o sep

\* ' '.join(text.split()[-k:]) for k > 0
LastWords(text, k) == LastWordsFrom(text, Len(text), k, FALSE, FALSE)

\* The index of the first atom from i on that is not whitespace
RECURSIVE SkipWs(_, _)
SkipWs(t, i) == IF i <= Len(t) /\ IsWs(t[i]) THEN SkipWs(t, i + 1) ELSE i

\* re.split(r'([.!?])\s+(?=[A-Z])', text) with each sentence joined to its
\* punctuation and stripped (lines 107-122)
RECURSIVE SentencesFrom(_, _, _)
SentencesFrom(t, i, cur) ==
    IF i > Len(t)
    THEN (IF StripText(cur) # <<>> THEN <<StripText(cur)>> ELSE <<>>)
    ELSE LET j == SkipWs(t, i + 1)
         IN  IF IsDots(t[i]) /\ j > i + 1 /\ j <= Len(t) /\ IsUpper(t[j])
             THEN <<StripText(Append(cur, t[i]))>> \o SentencesFrom(t, j, <<>>)
             ELSE SentencesFrom(t, i + 1, Append(cur, t[i]))

split_into_sentences(text) ==
    IF text = <<>> THEN <<>>
    ELSE IF SentencesFrom(text, 1, <<>>) # <<>> THEN SentencesFrom(text, 1, <<>>)
    ELSE <<text>>

\* Defaults of chunk_text and clean_and_chunk
target_chunk_size == 400
min_chunk_size == 300
max_chunk_size == 500
overlap_words == 50

\* chunks.append({"chunk_id": chunk_id, "text": ' '.join(current_chunk)})
AppendChunk(st) ==
    [st EXCEPT !.chunks = Append(@, [chunk_id |-> st.chunk_id,
                                     text |-> JoinText(st.current_chunk, <<SP>>)]),
               !.chunk_id = @ + 1]

\* Lines 187-195 and 250-257: the current chunk is emitted and emptied
Finalize(st) ==
    [AppendChunk(st) EXCEPT !.current_chunk = <<>>, !.current_word_count = 0]

\* Lines 203-222 and 225-246: a sentence or a paragraph joins the current
\* chunk, or the current chunk is emitted and the piece starts the next one
\* behind the last overlap words of the emitted chunk
AddPiece(st, piece, max, overlap) ==
    IF st.current_word_count + count_words(piece) > max /\ st.current_chunk # <<>>
    THEN LET e == AppendChunk(st)
             overlap_text == LastWords(e.chunks[Len(e.chunks)].text, overlap)
         IN  IF overlap > 0
             THEN [e EXCEPT !.current_chunk = <<overlap_text, piece>>,
                            !.current_word_count =
                                count_words(overlap_text) + count_words(piece)]
             ELSE [e EXCEPT !.current_chunk = <<piece>>,
                            !.current_word_count = count_words(piece)]
    ELSE [st EXCEPT !.current_chunk = Append(@, piece),
                    !.current_word_count = @ + count_words(piece)]

\* Lines 199-222: the sentences of an over-long paragraph
RECURSIVE AddSentences(_, _, _, _)
AddSentences(st, sentences, max, overlap) ==
    IF sentences = <<>> THEN st
    ELSE AddSentences(AddPiece(st, Head(sentences), max, overlap),
                      Tail(sentences), max, overlap)

\* Lines 182-257: one turn of the loop over the paragraphs
AddParagraph(st, paragraph, target, max, overlap) ==
    IF count_words(paragraph) > max
    THEN AddSentences(IF st.current_chunk # <<>> THEN Finalize(st) ELSE st,
                      split_into_sentences(paragraph), max, overlap)
    ELSE LET fits == ~(st.current_word_count + count_words(paragraph) > max
                       /\ st.current_chunk # <<>>)
             added == AddPiece(st, paragraph, max, overlap)
         IN  IF fits /\ added.current_word_count >= target THEN Finalize(added)
             ELSE added

RECURSIVE AddParagraphs(_, _, _, _, _)
AddParagraphs(st, paragraphs, target, max, overlap) ==
    IF paragraphs = <<>> THEN st
    ELSE AddParagraphs(AddParagraph(st, Head(paragraphs), target, max, overlap),
                       Tail(paragraphs), target, max, overlap)

\* Line 171
Paragraphs(cleaned_text) == StrippedNonEmpty(SplitOn(cleaned_text, <<NL, NL>>, <<>>))

\* chunk_text with no chunk for a buffer that is still open at the end
chunk_text_drop_last(cleaned_text, target, min, max, overlap) ==
    LET paragraphs == Paragraphs(cleaned_text)
        st == AddParagraphs([chunks |-> <<>>, current_chunk |-> <<>>,
                             current_word_count |-> 0, chunk_id |-> 1],
                            paragraphs, target, max, overlap)
    IN  IF cleaned_text = <<>> \/ cleaned_text = NonText THEN <<>>
        ELSE IF paragraphs = <<>> THEN <<>>
        ELSE st.chunks

\* The list of {"chunk_id", "text"} dicts chunk_text returns.  Nothing in
\* the try block raises for a str, so the handler of lines 270-273 is not
\* reached.
chunk_text(cleaned_text, target, min, max, overlap) ==
    LET paragraphs == Paragraphs(cleaned_text)
        st == AddParagraphs([chunks |-> <<>>, current_chunk |-> <<>>,
                             current_word_count |-> 0, chunk_id |-> 1],
                            paragraphs, target, max, overlap)
        final == JoinText(st.current_chunk, <<SP>>)
    IN  IF cleaned_text = <<>> \/ cleaned_text = NonText THEN <<>>
        ELSE IF paragraphs = <<>> THEN <<>>
        ELSE IF st.current_chunk # <<>>
                /\ (count_words(final) >= min \/ Len(st.chunks) = 0)
        THEN AppendChunk(st).chunks
        ELSE st.chunks

\* The atom at index i, or the empty string outside the text
At(t, i) == IF i \in 1..Len(t) THEN t[i] ELSE Atom("")

\* \b before the word that starts at i and after the word that ends before i
WordStart(t, i) == ~IsAlnum(At(t, i - 1))
WordEnd(t, i) == ~IsAlnum(At(t, i))

\* ^ and $ under re.MULTILINE
LineStart(t, i) == i = 1 \/ At(t, i - 1) = NL
LineEnd(t, i) == i = Len(t) + 1 \/ At(t, i) = NL

RECURSIVE SkipDigits(_, _)
SkipDigits(t, i) == IF IsDigits(At(t, i)) THEN SkipDigits(t, i + 1) ELSE i

RECURSIVE SkipDots(_, _)
SkipDots(t, i) == IF IsDots(At(t, i)) THEN SkipDots(t, i + 1) ELSE i

RECURSIVE SkipLetters(_, _)
SkipLetters(t, i) == IF IsLetters(At(t, i)) THEN SkipLetters(t, i + 1) ELSE i

\* Pieces of a pattern.  Each takes the index where it starts and gives the
\* index behind what it matched; 0 is no match, and no match is passed on.
\* \s+
Ws1(t, i) == IF i > 0 /\ SkipWs(t, i) > i THEN SkipWs(t, i) ELSE 0
\* \d+
Digits1(t, i) == IF i > 0 /\ SkipDigits(t, i) > i THEN SkipDigits(t, i) ELSE 0
\* a word, in any case where the pattern ignores case
Lit(t, i, words) == IF i > 0 /\ At(t, i).t \in words THEN i + 1 ELSE 0

PageWords == {"Page", "PAGE", "page"}
OfWords == {"of", "Of", "OF"}
TableWords == {"Table", "TABLE", "table"}
ContentsWords == {"Contents", "CONTENTS", "contents"}

\* \bPage\s+\d+\s+of\s+\d+\b with re.IGNORECASE, matched at i
PageOfEnd(t, i) ==
    LET e == Digits1(t, Ws1(t, Lit(t, Ws1(t, Digits1(t, Ws1(t, Lit(t, i, PageWords)))),
                                   OfWords)))
    IN  IF e > 0 /\ WordStart(t, i) /\ WordEnd(t, e) THEN e ELSE 0

\* \bPage\s+\d+\b with re.IGNORECASE
PageEnd(t, i) ==
    LET e == Digits1(t, Ws1(t, Lit(t, i, PageWords)))
    IN  IF e > 0 /\ WordStart(t, i) /\ WordEnd(t, e) THEN e ELSE 0

\* \b\d+\s+of\s+\d+\b
NOfNEnd(t, i) ==
    LET e == Digits1(t, Ws1(t, Lit(t, Ws1(t, Digits1(t, i)), {"of"})))
    IN  IF e > 0 /\ WordStart(t, i) /\ WordEnd(t, e) THEN e ELSE 0

\* The index of the last newline in t[from..to-1], or 0
RECURSIVE LastNewline(_, _, _)
LastNewline(t, from, to) ==
    IF to <= from THEN 0
    ELSE IF t[to - 1] = NL THEN to - 1
    ELSE LastNewline(t, from, to - 1)

\* \s+\d+\s*$ behind the periods of a contents entry: the page number, and
\* whitespace up to the end of the text or to the last newline of the run
TocTail(t, i) ==
    LET d == Digits1(t, Ws1(t, i))
    IN  IF d = 0 THEN 0
        ELSE IF SkipWs(t, d) > Len(t) THEN SkipWs(t, d)
        ELSE LastNewline(t, d, SkipWs(t, d))

\* .*?\.{3,}\s+\d+\s*$ from i on: the first run of three or more periods on
\* this line that a page number follows
RECURSIVE TocBody(_, _)
TocBody(t, i) ==
    IF i > Len(t) \/ At(t, i) = NL THEN 0
    ELSE IF IsDots(t[i])
    THEN (IF TextLen(SubSeq(t, i, SkipDots(t, i) - 1)) >= 3
             /\ TocTail(t, SkipDots(t, i)) > 0
          THEN TocTail(t, SkipDots(t, i))
          ELSE TocBody(t, SkipDots(t, i)))
    ELSE TocBody(t, i + 1)

\* ^\s*\d+\.\s+.*?\.{3,}\s+\d+\s*$ with re.MULTILINE
TocEntryEnd(t, i) ==
    LET d == Digits1(t, SkipWs(t, i))
        w == Ws1(t, d + 1)
    IN  IF LineStart(t, i) /\ d > 0 /\ At(t, d).t = "." /\ w > 0
        THEN TocBody(t, w) ELSE 0

MatchEnd(pattern, t, i) ==
    CASE pattern = "page_of" -> PageOfEnd(t, i)
      [] pattern = "page" -> PageEnd(t, i)
      [] pattern = "n_of_n" -> NOfNEnd(t, i)
      [] OTHER -> TocEntryEnd(t, i)

\* re.sub(pattern, '', t) from i on
RECURSIVE ReSub(_, _, _)
ReSub(pattern, t, i) ==
    IF i > Len(t) THEN <<>>
    ELSE IF MatchEnd(pattern, t, i) > 0 THEN ReSub(pattern, t, MatchEnd(pattern, t, i))
    ELSE <<t[i]>> \o ReSub(pattern, t, i + 1)

\* Lines 38-56: a stripped line of 6 to 49 characters that occurs 5 times
\* or more
IsFrequentLine(lines, stripped) ==
    /\ 5 < TextLen(stripped)
    /\ TextLen(stripped) < 50
    /\ Cardinality({i \in 1..Len(lines) : StripText(lines[i]) = stripped}) >= 5

RemoveFrequentLines(text) ==
    LET lines == SplitOn(text, <<NL>>, <<>>)
        keep(line) == ~IsFrequentLine(lines, StripText(line))
    IN  JoinText(SelectSeq(lines, keep), <<NL>>)

\* table\s+of\s+contents, in any case, matched at i
TocHeaderEnd(t, i) ==
    Lit(t, Ws1(t, Lit(t, Ws1(t, Lit(t, i, TableWords)), OfWords)), ContentsWords)

\* [A-Z][a-z]+(?:\s+[A-Z][a-z]+)*\s*$ in any case: words of letters up to
\* the end of the text
RECURSIVE WordsToEnd(_, _)
WordsToEnd(t, i) ==
    LET l == SkipLetters(t, i)
        w == SkipWs(t, l)
    IN  /\ l > i
        /\ TextLen(SubSeq(t, i, l - 1)) >= 2
        /\ (w > Len(t) \/ (w > l /\ WordsToEnd(t, w)))

\* Lines 64-69: the text from the first "table of contents" on is removed
\* when a later blank line is followed by words only up to the end
RemoveTocSection(text) ==
    LET starts == {i \in 1..Len(text) : TocHeaderEnd(text, i) > 0}
        first == CHOOSE i \in starts : \A j \in starts : i <= j
        header == \E i \in 1..Len(text) :
                      LineStart(text, i) /\ TocHeaderEnd(text, SkipWs(text, i)) > 0
    IN  IF header
           /\ \E q \in TocHeaderEnd(text, first)..Len(text) :
                  At(text, q) = NL /\ At(text, q + 1) = NL /\ WordsToEnd(text, q + 2)
        THEN SubSeq(text, 1, first - 1)
        ELSE text

\* re.sub(r' +', ' ', text)
RECURSIVE CollapseSpaces(_)
CollapseSpaces(t) ==
    IF t = <<>> THEN <<>>
    ELSE IF Head(t) = SP /\ At(t, 2) = SP THEN CollapseSpaces(Tail(t))
    ELSE <<Head(t)>> \o CollapseSpaces(Tail(t))

\* re.sub(r'\n{3,}', '\n\n', text)
RECURSIVE CollapseNewlines(_)
CollapseNewlines(t) ==
    IF t = <<>> THEN <<>>
    ELSE IF Head(t) = NL /\ At(t, 2) = NL /\ At(t, 3) = NL
    THEN CollapseNewlines(Tail(t))
    ELSE <<Head(t)>> \o CollapseNewlines(Tail(t))

\* Lines 77-79: every line stripped
StripLines(text) ==
    LET lines == SplitOn(text, <<NL>>, <<>>)
    IN  JoinText([i \in 1..Len(lines) |-> StripText(lines[i])], <<NL>>)

\* Lines 73-82
NormalizeWhitespace(text) ==
    StripText(StripLines(CollapseNewlines(CollapseSpaces(text))))

\* Nothing in the try block raises for a str, so the handler of lines 86-89
\* is not reached.
clean_text(raw_text) ==
    IF raw_text = <<>> \/ raw_text = NonText THEN <<>>
    ELSE NormalizeWhitespace(
             RemoveTocSection(
                 ReSub("toc_entry",
                       RemoveFrequentLines(
                           ReSub("n_of_n",
                                 ReSub("page", ReSub("page_of", raw_text, 1), 1), 1)),
                       1)))

\* Neither clean_text nor chunk_text raises, so the handler of lines
\* 322-324 is not reached.
clean_and_chunk(raw_text, target, min, max, overlap) ==
    LET cleaned_text == clean_text(raw_text)
    IN  IF raw_text = <<>> THEN <<>>
        ELSE IF cleaned_text = <<>> THEN <<>>
        ELSE chunk_text(cleaned_text, target, min, max, overlap)

----------------------------------------------------------------------------
(* skill_confidence_updater.py.  Confidences, increments and growth are    *)
(* percentages, held in thousandths like the other numbers.                *)

\* 0, 100 and 15 per cent
MIN_CONFIDENCE == 0
MAX_CONFIDENCE == 100000
MONTHLY_GROWTH_CAP == 15000

\* The pair (new_confidence, actual_increment_applied)
apply_confidence_update(current_confidence, increment, monthly_growth_used) ==
    LET available_capacity == MONTHLY_GROWTH_CAP - monthly_growth_used
        capped_increment == Min(increment, available_capacity)
        new_confidence == Max(MIN_CONFIDENCE,
                              Min(current_confidence + capped_increment,
                                  MAX_CONFIDENCE))
        actual_increment == new_confidence - current_confidence
    IN  IF increment <= 0
        THEN [new_confidence |-> current_confidence, actual_increment |-> 0]
        ELSE [new_confidence |-> Round2(new_confidence),
              actual_increment |-> Round2(actual_increment)]

\* round(numerator / denominator, 2) for a quotient in thousandths: to the
\* nearest hundredth, an exact tie to the even one
RoundRatio2(numerator, denominator) ==
    LET q == numerator \div (10 * denominator)
        r == numerator % (10 * denominator)
    IN  IF 2 * r < 10 * denominator THEN 10 * q
        ELSE IF 2 * r > 10 * denominator THEN 10 * (q + 1)
        ELSE IF q % 2 = 0 THEN 10 * q ELSE 10 * (q + 1)

\* role_multipliers.get(role, 1.0), in tenths
RoleMultiplier(role) ==
    CASE role = "Architect" -> 12
      [] role = "Lead" -> 11
      [] role = "Assistant" -> 8
      [] OTHER -> 10

RECURSIVE Power(_, _)
Power(base, exponent) == IF exponent = 0 THEN 1 ELSE base * Power(base, exponent - 1)

\* base_impact * role_multiplier * 0.8 ** existing_contributions_count,
\* rounded to two decimals
calculate_confidence_increment(role, base_impact, existing_contributions_count) ==
    RoundRatio2(base_impact * RoleMultiplier(role)
                    * Power(8, existing_contributions_count),
                10 * Power(10, existing_contributions_count))

\* confidenceImpact is None
NoImpact == -1

\* Lines 167-172: the contributions that are not applied yet, are validated
\* and carry an impact.  applied_contributions is the list of applied ids.
RECURSIVE PendingContributions(_, _)
PendingContributions(validated_contributions, applied_contributions) ==
    IF validated_contributions = <<>> THEN <<>>
    ELSE LET c == Head(validated_contributions)
             rest == PendingContributions(Tail(validated_contributions),
                                          applied_contributions)
         IN  IF /\ \A i \in 1..Len(applied_contributions) :
                       applied_contributions[i] # c.id
                /\ c.status = "Validated"
                /\ c.confidenceImpact # NoImpact
             THEN <<c>> \o rest ELSE rest

\* Lines 175-180: the keys of skill_contributions in insertion order
RECURSIVE SkillsInOrder(_, _)
SkillsInOrder(pending_contributions, seen) ==
    IF pending_contributions = <<>> THEN <<>>
    ELSE LET skill == Head(pending_contributions).skill
         IN  IF skill \in seen THEN SkillsInOrder(Tail(pending_contributions), seen)
             ELSE <<skill>> \o SkillsInOrder(Tail(pending_contributions),
                                             seen \cup {skill})

\* Lines 199-232: the contributions of one skill in turn.  acc holds the
\* plan so far and current_conf, growth_used, existing_count of the skill.
RECURSIVE ProcessSkill(_, _, _)
ProcessSkill(acc, skill, contributions) ==
    IF contributions = <<>> THEN acc
    ELSE LET contrib == Head(contributions)
             increment == calculate_confidence_increment(
                              contrib.role, contrib.confidenceImpact,
                              acc.existing_count)
             r == apply_confidence_update(acc.current_conf, increment,
                                          acc.growth_used)
             next ==
                 IF r.actual_increment > 0
                 THEN [acc EXCEPT
                          !.updates = Append(@,
                              [skill |-> skill,
                               oldConfidence |-> acc.current_conf,
                               newConfidence |-> r.new_confidence,
                               increment |-> r.actual_increment,
                               sourceContributionId |-> contrib.id]),
                          !.appliedContributionIds = Append(@, contrib.id),
                          !.current_conf = r.new_confidence,
                          !.growth_used = @ + r.actual_increment,
                          !.existing_count = @ + 1]
                 ELSE [acc EXCEPT !.errors = Append(@, contrib.id)]
         IN  ProcessSkill(next, skill, Tail(contributions))

\* current_skill_confidence.get(skill, 0.0), monthly_growth_tracker.get(skill, 0.0)
GetOr(dict, key, default) == IF key \in DOMAIN dict THEN dict[key] ELSE default

\* Lines 187-232: the loop over the skills
RECURSIVE ProcessSkills(_, _, _, _, _)
ProcessSkills(acc, skills, pending_contributions, current_skill_confidence, monthly_growth_tracker) ==
    IF skills = <<>> THEN acc
    ELSE LET skill == Head(skills)
             of_skill(c) == c.skill = skill
             start == [acc EXCEPT
                          !.current_conf = GetOr(current_skill_confidence, skill, 0),
                          !.growth_used = GetOr(monthly_growth_tracker, skill, 0),
                          !.existing_count = 0]
         IN  ProcessSkills(
                 ProcessSkill(start, skill, SelectSeq(pending_contributions, of_skill)),
                 Tail(skills), pending_contributions, current_skill_confidence,
                 monthly_growth_tracker)

\* The update plan, or the exception that leaves the function.  Line 195
\* calls c.get('skill') on every element of applied_contributions, outside
\* the try block of the contribution loop: for a list of ids (str) that is
\* an AttributeError as soon as one skill has a pending contribution.
process_validated_contributions(validated_contributions, current_skill_confidence, applied_contributions, monthly_growth_tracker) ==
    LET pending_contributions ==
            PendingContributions(validated_contributions, applied_contributions)
        skills == SkillsInOrder(pending_contributions, {})
        plan == ProcessSkills([updates |-> <<>>, appliedContributionIds |-> <<>>,
                               errors |-> <<>>, current_conf |-> 0,
                               growth_used |-> 0, existing_count |-> 0],
                              skills, pending_contributions,
                              current_skill_confidence, monthly_growth_tracker)
    IN  IF skills # <<>> /\ applied_contributions # <<>>
        THEN [exc |-> TRUE, updates |-> <<>>, appliedContributionIds |-> <<>>,
              errors |-> <<>>]
        ELSE [exc |-> FALSE, updates |-> plan.updates,
              appliedContributionIds |-> plan.appliedContributionIds,
              errors |-> plan.errors]

----------------------------------------------------------------------------
(* helix_points_engine.py.  Points are integers; a confidence delta is in  *)
(* thousandths of a percentage point like every confidence of the updater. *)

MONTHLY_POINTS_CAP_PER_SKILL == 200
MIN_POINTS_PER_CONTRIBUTION == 5
MAX_POINTS_PER_CONTRIBUTION == 150

\* base_points_map.get(contribution_level, BASE_POINTS_MODERATE)
calculate_base_points(contribution_level) ==
    CASE contribution_level = "Minor" -> 10
      [] contribution_level = "Significant" -> 50
      [] OTHER -> 25

\* role_multipliers.get(role, ROLE_MULTIPLIER_CONTRIBUTOR), in hundredths
get_role_multiplier(role) ==
    CASE role = "Assistant" -> 70
      [] role = "Lead" -> 130
      [] role = "Architect" -> 143
      [] OTHER -> 100

\* The multiplier as a fraction n / d: 1.0 below the threshold of 5.0, from
\* there on delta / 5.0 * 1.1, at most 2.0
calculate_confidence_delta_multiplier(confidence_delta) ==
    IF confidence_delta <= 0 THEN [n |-> 1, d |-> 1]
    ELSE IF confidence_delta >= 5 * One
    THEN (IF 11 * confidence_delta >= 2 * 50 * One THEN [n |-> 2, d |-> 1]
          ELSE [n |-> 11 * confidence_delta, d |-> 50 * One])
    ELSE [n |-> 1, d |-> 1]

\* int(round(numerator / denominator)): to the nearest integer, an exact
\* tie to the even one
RoundRatio(numerator, denominator) ==
    LET q == numerator \div denominator
        r == numerator % denominator
    IN  IF 2 * r < denominator THEN q
        ELSE IF 2 * r > denominator THEN q + 1
        ELSE IF q % 2 = 0 THEN q ELSE q + 1

\* skill_rarity_multiplier is 1.0 at the one call
calculate_helix_points(contribution_level, role, confidence_delta) ==
    LET base_points == calculate_base_points(contribution_level)
        role_mult == get_role_multiplier(role)
        confidence_mult == calculate_confidence_delta_multiplier(confidence_delta)
        total_points == RoundRatio(base_points * role_mult * confidence_mult.n,
                                   100 * confidence_mult.d)
    IN  Max(MIN_POINTS_PER_CONTRIBUTION,
            Min(total_points, MAX_POINTS_PER_CONTRIBUTION))

\* Lines 199-203: the last update of each contribution id; 0 positions of
\* confidence_updates when there is none
ConfidenceUpdateOf(confidence_updates, contrib_id) ==
    LET matches == {i \in 1..Len(confidence_updates) :
                       confidence_updates[i].sourceContributionId = contrib_id}
    IN  IF matches = {} THEN 0 ELSE CHOOSE i \in matches : \A j \in matches : j <= i

\* Lines 210-274: the loop over the contributions.  current_monthly_points
\* is read at line 233 and written nowhere.
RECURSIVE AwardContributions(_, _, _, _)
AwardContributions(acc, contributions, confidence_updates, current_monthly_points) ==
    IF contributions = <<>> THEN acc
    ELSE LET contrib == Head(contributions)
             u == ConfidenceUpdateOf(confidence_updates, contrib.id)
             confidence_delta == confidence_updates[u].increment
             skill_points_this_month == GetOr(current_monthly_points, contrib.skill, 0)
             calculated_points ==
                 calculate_helix_points(contrib.contributionLevel, contrib.role,
                                        confidence_delta)
             over == skill_points_this_month + calculated_points
                         > MONTHLY_POINTS_CAP_PER_SKILL
             points == IF over
                       THEN MONTHLY_POINTS_CAP_PER_SKILL - skill_points_this_month
                       ELSE calculated_points
             error(kind) == [acc EXCEPT !.errors = Append(@, <<kind, contrib.id>>)]
             next ==
                 IF ~contrib.appliedToConfidence THEN error("not applied")
                 ELSE IF u = 0 THEN error("no update")
                 ELSE IF skill_points_this_month >= MONTHLY_POINTS_CAP_PER_SKILL
                 THEN error("cap reached")
                 ELSE IF over /\ points < MIN_POINTS_PER_CONTRIBUTION
                 THEN error("would exceed cap")
                 ELSE [acc EXCEPT
                          !.awards = Append(@,
                              [skill |-> contrib.skill,
                               pointsAwarded |-> points,
                               sourceContributionId |-> contrib.id,
                               contributionLevel |-> contrib.contributionLevel,
                               role |-> contrib.role,
                               confidenceDelta |-> confidence_delta,
                               basePoints |->
                                   calculate_base_points(contrib.contributionLevel)]),
                          !.totalPoints = @ + points]
         IN  AwardContributions(next, Tail(contributions), confidence_updates,
                                current_monthly_points)

\* The award plan
process_point_awards(validated_contributions, confidence_updates, current_monthly_points) ==
    AwardContributions([awards |-> <<>>, totalPoints |-> 0, errors |-> <<>>],
                       validated_contributions, confidence_updates,
                       current_monthly_points)

----------------------------------------------------------------------------
(* Calls of the answer pipeline's functions on inputs from small sets.     *)

Q_LEAVE == Words(<<"annual", "leave", "days">>)
Q_INFO == Words(<<"information", "in", "the", "hr", "documents">>)
Q_PAY == Words(<<"payroll", "dates">>)

Queries == {Q_LEAVE, Q_INFO, Q_PAY, <<>>, <<" ">>, None, NonStr}

\* Model outputs: plain text, JSON with and without its own fields, JSON in
\* fences or after a lead-in, broken JSON, JSON that is not an object.
Obj(members) == <<"{">> \o members \o <<"}">>

LLMTexts ==
    { Words(<<"Twenty", "days">>),
      Sentence(<<"I", "don't", "have", "that", "information">>),
      Obj(<<A_STR, ",", C_090, ",", E_TRUE>>),
      Obj(<<A_STR, ",", C_030, ",", E_FALSE>>),
      Obj(<<A_STR, ",", C_090>>),
      Obj(<<A_STR, ",", C_030>>),
      Obj(<<A_STR, ",", E_FALSE>>),
      Obj(<<A_STR, ",", C_170, ",", E_NULL, ",", R_STR>>),
      Obj(<<A_NOINFO, ",", C_NEG, ",", E_STR, ",", R_NUM>>),
      Obj(<<A_BLANK, ",", C_STR>>),
      Obj(<<A_NUM, ",", C_BAD>>),
      Obj(<<C_NULL>>),
      Obj(<<>>),
      Obj(<<A_STR, ",", K_META, "{", C_030, "}", ",", C_090>>),
      <<FENCE_JSON, "\n">> \o Obj(<<A_STR, ",", C_030, ",", E_FALSE>>) \o <<"\n", FENCE>>,
      <<FENCE_JSON>>,
      Words(<<"Here", "it", "is:">>) \o <<" ">> \o Obj(<<A_STR, ",", C_090, ",", E_TRUE>>),
      Obj(<<A_STR, ",">>) \o <<" ">> \o Obj(<<A_NOINFO, ",", C_030>>),
      <<"{">> \o Words(<<"see", "policy">>),
      Obj(<<A_STR, ",", K_DEEP>>),
      <<"42">> }

Provider(name, contents) ==
    {[provider |-> name, kind |-> k, content |-> None] :
        k \in {"no_client", "raises", "malformed"}}
    \cup {[provider |-> name, kind |-> "content", content |-> c] : c \in contents}

LLMs ==
    Provider("groq", LLMTexts \cup {None, NonStr, <<>>, <<" ">>})
    \cup Provider("openai", {Words(<<"Twenty", "days">>), <<" ">>})
    \cup {[provider |-> "mock", kind |-> "content", content |-> None]}

Scores == {-300, 0, 300, 594, 600, 900}

ScoreLists ==
    {[kind |-> "none", items |-> <<>>], [kind |-> "bad", items |-> <<>>],
     [kind |-> "list", items |-> <<>>]}
    \cup {[kind |-> "list", items |-> <<a>>] : a \in {-300, 300, 1200}}
    \cup {[kind |-> "list", items |-> <<594, 600>>],
          [kind |-> "list", items |-> <<900, 300, 600>>]}

DocLists ==
    {[kind |-> "none", items |-> <<>>], [kind |-> "list", items |-> <<>>],
     [kind |-> "list", items |-> <<<<" ">>, None>>],
     [kind |-> "list", items |-> <<T_LEAVE>>],
     [kind |-> "list", items |-> <<<<" ">>, T_SICK, T_LEAVE>>]}

GenLLMs == Provider("openai", {Words(<<"Twenty", "days">>), T_LEAVE, MSG_NO_INFO,
                               None, NonStr, <<>>, <<" ">>})

ChunkLists ==
    {[kind |-> "none", items |-> <<>>], [kind |-> "str", items |-> <<T_LEAVE>>],
     [kind |-> "list", items |-> <<>>],
     [kind |-> "list", items |-> <<<<>>, <<" ">>, None, NonStr>>],
     [kind |-> "list", items |-> <<T_LEAVE>>],
     [kind |-> "list", items |-> <<<<" ">>, T_SICK, T_LEAVE>>]}

Hit(id, text, score) ==
    [kind |-> "dict", chunk_id |-> id, text |-> text, score |-> score]

HitLists ==
    {<<>>, <<Hit(1, <<>>, 900)>>, <<[kind |-> "str", text |-> T_SICK]>>,
     <<[kind |-> "str", text |-> <<>>]>>}
    \cup {<<Hit(1, T_LEAVE, a)>> : a \in Scores \cup {1200}}
    \cup {<<Hit(2, T_SICK, 594), Hit(1, T_LEAVE, 600)>>,
          <<Hit(3, <<>>, 900), Hit(1, T_LEAVE, 900), Hit(2, T_SICK, 300)>>}

Answers ==
    {MSG_NO_INFO, MSG_NO_INFO_SHORT, Words(<<"Twenty", "days">>), T_LEAVE,
     FALLBACK_PREFIX \o T_LEAVE \o FALLBACK_NOTE,
     T_LEAVE \o <<" ">> \o T_SICK \o <<" ">> \o T_LEAVE \o <<" ">> \o T_SICK}

StrQueries == {q \in Queries : IsStr(q)}

NoIndex ==
    [embeddings |-> NoVectors, chunk_texts |-> <<>>, chunks_metadata |-> <<>>,
     loaded |-> FALSE]

Env(pdfs, chunks_file, embedder_state, modules_ok) ==
    [pdfs |-> pdfs, chunks_file |-> chunks_file, embedder |-> embedder_state,
     modules |-> modules_ok]

\* The number of requests the server has in flight at most
MaxRequests == 2

Coroutines == 1..MaxRequests

\* The frame of a coroutine: its handler, where it is, and its locals
IdleFrame ==
    [handler |-> "idle", pc |-> "idle", question |-> <<>>, filename |-> "",
     vectors |-> NoVectors, texts |-> <<>>, build |-> NoIndex]

\* log: the last call that built the index, what it returned, and the
\* globals when it was called
NoLog == [op |-> "none", ok |-> TRUE, before |-> NoIndex]

\* The state of the server while the pipeline's functions are called alone
ServerIdle ==
    /\ _embeddings = NoVectors
    /\ _chunk_texts = <<>>
    /\ _chunks_metadata = <<>>
    /\ _embeddings_loaded = FALSE
    /\ disk = [pdfs |-> <<>>, chunks_file |-> "absent"]
    /\ embedder = "ok"
    /\ modules = TRUE
    /\ running = 0
    /\ co = [c \in Coroutines |-> IdleFrame]
    /\ log = NoLog

GenInit ==
    /\ fn = "none"
    /\ arg = <<>>
    /\ ret = <<>>
    /\ ServerIdle

CallGenerateAnswer ==
    /\ fn = "none"
    /\ \E query \in Queries, context_chunks \in ChunkLists, llm \in GenLLMs :
        /\ fn' = "generate_answer"
        /\ arg' = [query |-> query, context_chunks |-> context_chunks, llm |-> llm]
        /\ ret' = generate_answer(query, context_chunks, llm)
        /\ UNCHANGED srvVars

CallGenerateAnswerWithMetadata ==
    /\ fn = "none"
    /\ \E query \in Queries, context_chunks \in HitLists, llm \in GenLLMs :
        /\ fn' = "generate_answer_with_metadata"
        /\ arg' = [query |-> query, context_chunks |-> context_chunks, llm |-> llm]
        /\ ret' = generate_answer_with_metadata(query, context_chunks, llm)
        /\ UNCHANGED srvVars

CallCalculateConfidence ==
    /\ fn = "none"
    /\ \E avg_similarity \in Scores \cup {1200}, answer \in Answers, query \in StrQueries :
        /\ fn' = "_calculate_confidence"
        /\ arg' = [avg_similarity |-> avg_similarity, answer |-> answer,
                   query |-> query]
        /\ ret' = _calculate_confidence(avg_similarity, answer, query)
        /\ UNCHANGED srvVars

\* The arguments of generate_response: every invalid question and every
\* unusable document list once, every model output with every score list
GenerateResponseArgs ==
    {<<q, [kind |-> "list", items |-> <<T_LEAVE>>],
       [kind |-> "list", items |-> <<900>>],
       [provider |-> "mock", kind |-> "content", content |-> None]>> :
        q \in Queries}
    \cup {<<Q_LEAVE, d, [kind |-> "list", items |-> <<900>>],
            [provider |-> "groq", kind |-> "raises", content |-> None]>> :
            d \in DocLists}
    \cup {<<q, d, sc, llm>> :
            q \in {Q_LEAVE, Q_PAY},
            d \in {[kind |-> "list", items |-> <<T_LEAVE>>],
                   [kind |-> "list", items |-> <<<<" ">>, T_SICK, T_LEAVE>>]},
            sc \in ScoreLists, llm \in LLMs}

CallGenerateResponse ==
    /\ fn = "none"
    /\ \E a \in GenerateResponseArgs :
        /\ fn' = "generate_response"
        /\ arg' = [question |-> a[1], document_texts |-> a[2],
                   similarity_scores |-> a[3], llm |-> a[4]]
        /\ ret' = generate_response(a[1], a[2], a[3], a[4])
        /\ UNCHANGED srvVars

\* Values of the LLM_PROVIDER environment variable
ProviderEnvs == {"groq", "GROQ", "openai", "OpenAI", "mock", "azure", "", "<unset>"}

\* The joined excerpts generate_response passes to _call_llm
DocumentContexts ==
    {JoinExcerpts(<<T_LEAVE>>, 1), JoinExcerpts(<<T_SICK, T_LEAVE>>, 1)}

CallCallLlm ==
    /\ fn = "none"
    /\ \E env \in ProviderEnvs, question \in {Q_LEAVE, Q_PAY},
       documents_context \in DocumentContexts,
       client \in Provider("any", {Words(<<"Twenty", "days">>), <<" ">>}) :
        LET llm == [client EXCEPT !.provider = ConfiguredProvider(env)]
        IN  /\ fn' = "_call_llm"
            /\ arg' = [env |-> env, question |-> question,
                       documents_context |-> documents_context, llm |-> llm]
            /\ ret' = [response |-> _call_llm(question, documents_context, llm),
                       providers |-> ProvidersCalled(llm),
                       network |-> NetworkCalled(llm)]
            /\ UNCHANGED srvVars

\* The baselines of the parser: confidences from 0.0 to 1.0
Baselines == {0, 300, 594, 600, 1000}

CallSafeParseLlmJson ==
    /\ fn = "none"
    /\ \E response_text \in LLMTexts \cup {<<>>, <<" ">>},
       default_confidence \in Baselines :
        /\ fn' = "safe_parse_llm_json"
        /\ arg' = [response_text |-> response_text,
                   default_confidence |-> default_confidence]
        /\ ret' = safe_parse_llm_json(response_text, default_confidence)
        /\ UNCHANGED srvVars

SearchTexts == {<<T_LEAVE>>, <<T_LEAVE, T_SICK>>, <<T_LEAVE, T_SICK, T_LEAVE>>}

SearchScores == {0, 600, 900}

\* Every similarity row for an index of n chunks
SimilaritiesOf(n) == [1..n -> SearchScores]

\* Valid arguments with every order of the scores, and arguments with one
\* part invalid
SearchArgs ==
    {<<Q_LEAVE, EncodeAll(t), t, k, sim>> :
        t \in SearchTexts, k \in {1, 2, 5}, sim \in SimilaritiesOf(3)}
    \cup {<<q, EncodeAll(<<T_LEAVE>>), <<T_LEAVE>>, 3, <<900>>>> :
            q \in {<<>>, <<" ">>, None, NonStr}}
    \cup {<<Q_LEAVE, v, <<T_LEAVE>>, 3, <<900>>>> : v \in {NoVectors, Array(<<>>)}}
    \cup {<<Q_LEAVE, EncodeAll(<<T_LEAVE, T_SICK>>), t, 3, <<900, 600>>>> :
            t \in {<<>>, <<T_LEAVE>>, <<T_LEAVE, T_SICK, T_LEAVE>>}}
    \cup {<<Q_LEAVE, EncodeAll(<<T_LEAVE>>), <<T_LEAVE>>, k, <<900>>>> :
            k \in {0, -1}}

CallSearchSimilarChunks ==
    /\ fn = "none"
    /\ \E a \in SearchArgs, embedder_state \in {"ok", "down"} :
        /\ fn' = "search_similar_chunks"
        /\ arg' = [query |-> a[1], vectors |-> a[2], texts |-> a[3],
                   top_k |-> a[4],
                   similarities |-> SubSeq(a[5], 1, Len(a[2].rows)),
                   embedder |-> embedder_state]
        /\ ret' = SearchRun(a[1], a[2], a[3], a[4],
                            SubSeq(a[5], 1, Len(a[2].rows)), embedder_state)
        /\ UNCHANGED srvVars

Envs ==
    {Env(<<>>, f, "ok", TRUE) :
        f \in {"absent", "empty", "blank", "mixed", "object", "numbered",
               "invalid"}}
    \cup {Env(p, "absent", e, m) :
            p \in {<<"leave.pdf">>, <<"scan.pdf", "handbook.pdf">>, <<"broken.pdf">>},
            e \in {"ok", "down"}, m \in BOOLEAN}

\* The globals the server can hold when a request arrives, with what the
\* environment gives then: before any index every environment, with an
\* index the embedder and the imports
ServerStates ==
    {<<NoIndex, env>> : env \in Envs}
    \cup {<<st, Env(<<"leave.pdf">>, "absent", e, m)>> :
            st \in {reindex_hr_documents(
                        NoIndex, Env(<<"leave.pdf">>, "absent", "ok", TRUE)).st,
                    load_chunks_and_embeddings(
                        NoIndex, Env(<<>>, "absent", "ok", TRUE)).st},
            e \in {"ok", "down"}, m \in BOOLEAN}

Requests ==
    {[question |-> Q_LEAVE, user_id |-> None, chat_id |-> None],
     [question |-> Q_LEAVE, user_id |-> <<"u1">>, chat_id |-> None],
     [question |-> Q_PAY, user_id |-> <<"u1">>, chat_id |-> <<"c1">>],
     [question |-> <<" ">>, user_id |-> None, chat_id |-> None],
     [question |-> <<>>, user_id |-> <<"u1">>, chat_id |-> None]}

SimilarityRows ==
    {<<900, 300, 600, 0, 0, 0, 0, 0>>, <<594, 600, 0, 0, 0, 0, 0, 0>>,
     <<-300, -300, -300, -300, -300, -300, -300, -300>>}

ChatLLMs ==
    {[provider |-> "mock", kind |-> "content", content |-> None],
     [provider |-> "groq", kind |-> "no_client", content |-> None],
     [provider |-> "groq", kind |-> "content", content |-> Words(<<"Twenty", "days">>)],
     [provider |-> "groq", kind |-> "content",
      content |-> Obj(<<A_STR, ",", C_030, ",", E_FALSE>>)],
     [provider |-> "openai", kind |-> "content",
      content |-> Obj(<<A_STR, ",", C_090, ",", E_TRUE>>)]}

CallChat ==
    /\ fn = "none"
    /\ \E request \in Requests, se \in ServerStates,
       similarities \in SimilarityRows, llm \in ChatLLMs, fault \in BOOLEAN :
        /\ fn' = "chat"
        /\ arg' = [request |-> request, st |-> se[1], env |-> se[2],
                   similarities |-> similarities, llm |-> llm, fault |-> fault]
        /\ ret' = chat(request, se[1], se[2], similarities, llm, fault)
        /\ UNCHANGED srvVars

\* The caller takes the result; the next call starts from there
\* Word counts of the paragraphs drawn: short, under and at the minimum,
\* just under and at the target, under and at the maximum
ParagraphSizes == {10, 299, 300, 399, 400, 480, 500}

\* Paragraphs of one document differ in their word (tag)
ParagraphShapes(tag) ==
    {<<Run(tag, n)>> : n \in ParagraphSizes}
    \cup {\* two lines
          <<Run(tag, 5), NL, Run(tag, 5)>>,
          \* 602 words in two sentences
          <<Run(tag, 300), Atom("."), SP, Atom("Next"), SP, Run(tag, 300), Atom(".")>>,
          \* one sentence of 600 words
          <<Run(tag, 600)>>}

\* Cleaned texts of one to three paragraphs
ChunkerTexts ==
    {p : p \in ParagraphShapes("pa")}
    \cup {p \o <<NL, NL>> \o q :
            p \in ParagraphShapes("pa"), q \in ParagraphShapes("pb")}
    \cup {p \o <<NL, NL>> \o q \o <<NL, NL>> \o r :
            p \in ParagraphShapes("pa"), q \in ParagraphShapes("pb"),
            r \in ParagraphShapes("pc")}
    \cup {<<>>, NonText, <<SP>>, <<NL, NL>>}

CallChunkText ==
    /\ fn = "none"
    /\ \E cleaned_text \in ChunkerTexts :
        /\ fn' = "chunk_text"
        /\ arg' = [cleaned_text |-> cleaned_text]
        /\ ret' = chunk_text(cleaned_text, target_chunk_size, min_chunk_size,
                             max_chunk_size, overlap_words)
        /\ UNCHANGED srvVars

\* Raw text of a PDF.  One to three words with every separator between
\* them: a space, two spaces, a line break, a blank line, and a blank line
\* that holds a space
RawWords == {Atom("Page"), Atom("1"), Atom("of"), Atom("Leave")}

Separators == {<<SP>>, <<SP, SP>>, <<NL>>, <<NL, NL>>, <<NL, SP, NL, NL>>}

HeaderLine == <<Atom("Acme"), SP, Atom("Handbook")>>
WideHeaderLine == <<Atom("Acme"), SP, SP, Atom("Handbook")>>

\* "1. Leave ... 2"
TocEntry(number, title, page) ==
    <<Atom(number), Atom("."), SP, Atom(title), SP, Atom("..."), SP, Atom(page)>>

TocHeader == <<Atom("Table"), SP, Atom("of"), SP, Atom("Contents")>>

RawDocuments ==
    {\* page markers only
     <<Atom("Page"), SP, Atom("1"), SP, Atom("of"), SP, Atom("10")>>,
     <<Atom("PAGE"), SP, Atom("2"), NL, Atom("1"), SP, Atom("of"), SP, Atom("10")>>,
     <<Atom("Page"), SP, Atom("Page"), SP, Atom("1"), SP, Atom("2")>>,
     \* a header line on each of five pages, alone and around paragraphs
     JoinText(<<HeaderLine, HeaderLine, HeaderLine, HeaderLine, HeaderLine>>, <<NL>>),
     JoinText(<<HeaderLine, <<Run("pa", 10)>>, HeaderLine, <<Run("pb", 10)>>,
                HeaderLine, <<Run("pc", 10)>>, HeaderLine, HeaderLine>>, <<NL>>),
     JoinText(<<HeaderLine, HeaderLine, HeaderLine, HeaderLine, <<Run("pa", 10)>>>>,
              <<NL>>),
     JoinText(<<WideHeaderLine, HeaderLine, WideHeaderLine, HeaderLine,
                WideHeaderLine, <<Run("pa", 10)>>>>, <<NL>>),
     \* entries of a table of contents, alone and before a paragraph
     TocEntry("1", "Leave", "2"),
     JoinText(<<TocEntry("1", "Leave", "2"), TocEntry("2", "Acme", "10")>>, <<NL>>),
     JoinText(<<TocEntry("1", "Leave", "2"), <<Run("pa", 10)>>>>, <<NL, NL>>),
     <<Atom("1"), Atom("."), SP, Atom("Leave"), SP, Atom("."), SP, Atom("2")>>,
     \* a table of contents before a title, and before a sentence
     JoinText(<<TocHeader, TocEntry("1", "Leave", "2")>>, <<NL>>)
         \o <<NL, NL, Atom("Leave"), SP, Atom("Handbook")>>,
     JoinText(<<TocHeader, TocEntry("1", "Leave", "2")>>, <<NL>>)
         \o <<NL, NL, Atom("Leave"), SP, Run("pa", 10), Atom(".")>>,
     <<Run("pa", 10), NL>> \o TocHeader \o <<NL, NL, Run("pb", 10)>>,
     \* paragraphs between page markers
     <<Atom("Page"), SP, Atom("1"), NL, Run("pa", 400), NL, NL, Run("pb", 10)>>,
     <<Run("pa", 399), NL, NL, NL, Run("pb", 480), NL, Atom("Page"), SP, Atom("2"),
       NL, NL, Run("pc", 10), NL, NL, Run("pd", 400)>>,
     <<Run("pa", 300), Atom("."), SP, Atom("Next"), SP, Run("pa", 300), Atom(".")>>,
     \* nothing, not a str, whitespace only
     <<>>, NonText, <<SP>>, <<NL, NL>>}

RawTexts ==
    RawDocuments
    \cup {<<a>> : a \in RawWords}
    \cup {<<a>> \o s \o <<b>> : a \in RawWords, s \in Separators, b \in RawWords}
    \cup {<<a>> \o s \o <<b>> \o u \o <<c>> :
            a \in RawWords, s \in Separators, b \in RawWords,
            u \in Separators, c \in RawWords}

CallCleanText ==
    /\ fn = "none"
    /\ \E raw_text \in RawTexts :
        /\ fn' = "clean_text"
        /\ arg' = [raw_text |-> raw_text]
        /\ ret' = clean_text(raw_text)
        /\ UNCHANGED srvVars

CallCleanAndChunk ==
    /\ fn = "none"
    /\ \E raw_text \in RawTexts :
        /\ fn' = "clean_and_chunk"
        /\ arg' = [raw_text |-> raw_text]
        /\ ret' = clean_and_chunk(raw_text, target_chunk_size, min_chunk_size,
                                  max_chunk_size, overlap_words)
        /\ UNCHANGED srvVars

\* Confidences in [0, 100], increments of either sign, growth used below,
\* at and above the monthly cap
CurrentConfidences == {0, 40000, 50000, 50003, 90000, 99500, 100000}
Increments == {-1000, 0, 1, 2500, 5000, 20000}
GrowthUsed == {0, 5000, 12500, 15000, 20000}

CallApplyConfidenceUpdate ==
    /\ fn = "none"
    /\ \E current_confidence \in CurrentConfidences, increment \in Increments,
       monthly_growth_used \in GrowthUsed :
        /\ fn' = "apply_confidence_update"
        /\ arg' = [current_confidence |-> current_confidence,
                   increment |-> increment,
                   monthly_growth_used |-> monthly_growth_used]
        /\ ret' = apply_confidence_update(current_confidence, increment,
                                          monthly_growth_used)
        /\ UNCHANGED srvVars

\* Contributions to draw a batch from: three roles and impacts for one
\* skill, another skill, one that is not validated and one without impact
ContributionKinds ==
    {[skill |-> "React", role |-> "Contributor", confidenceImpact |-> 5000,
      status |-> "Validated"],
     [skill |-> "React", role |-> "Lead", confidenceImpact |-> 10000,
      status |-> "Validated"],
     [skill |-> "React", role |-> "Architect", confidenceImpact |-> 20000,
      status |-> "Validated"],
     [skill |-> "Node", role |-> "Assistant", confidenceImpact |-> 2000,
      status |-> "Validated"],
     [skill |-> "React", role |-> "Contributor", confidenceImpact |-> 5000,
      status |-> "Pending"],
     [skill |-> "React", role |-> "Contributor", confidenceImpact |-> NoImpact,
      status |-> "Validated"]}

MaxBatch == 3

ContributionId(i) ==
    CASE i = 1 -> "c1" [] i = 2 -> "c2" [] i = 3 -> "c3" [] OTHER -> "c4"

\* Batches of up to MaxBatch contributions with the ids c1, c2, c3
Batches ==
    UNION {{[i \in 1..n |-> [id |-> ContributionId(i), skill |-> kinds[i].skill,
                             role |-> kinds[i].role,
                             confidenceImpact |-> kinds[i].confidenceImpact,
                             status |-> kinds[i].status]] :
              kinds \in [1..n -> ContributionKinds]} : n \in 0..MaxBatch}

CallProcessValidatedContributions ==
    /\ fn = "none"
    /\ \E validated_contributions \in Batches,
       current_conf \in {50000, 99000},
       applied_contributions \in {<<>>, <<"c1">>, <<"c0">>},
       growth_used \in {0, 12500, 14994, 15000} :
        /\ fn' = "process_validated_contributions"
        /\ arg' = [validated_contributions |-> validated_contributions,
                   current_skill_confidence |-> [s \in {"React"} |-> current_conf],
                   applied_contributions |-> applied_contributions,
                   monthly_growth_tracker |-> [s \in {"React"} |-> growth_used]]
        /\ ret' = process_validated_contributions(
                      validated_contributions,
                      [s \in {"React"} |-> current_conf],
                      applied_contributions,
                      [s \in {"React"} |-> growth_used])
        /\ UNCHANGED srvVars

\* Contributions to draw a batch of awards from: levels and roles for one
\* skill, another skill, one that is not applied to confidence yet and
\* one that was rejected after it was applied
AwardKinds ==
    {[skill |-> "React", contributionLevel |-> "Significant", role |-> "Architect",
      status |-> "Validated", appliedToConfidence |-> TRUE],
     [skill |-> "React", contributionLevel |-> "Moderate", role |-> "Lead",
      status |-> "Validated", appliedToConfidence |-> TRUE],
     [skill |-> "React", contributionLevel |-> "Minor", role |-> "Assistant",
      status |-> "Validated", appliedToConfidence |-> TRUE],
     [skill |-> "Node", contributionLevel |-> "Significant", role |-> "Contributor",
      status |-> "Validated", appliedToConfidence |-> TRUE],
     [skill |-> "React", contributionLevel |-> "Moderate", role |-> "Contributor",
      status |-> "Validated", appliedToConfidence |-> FALSE],
     [skill |-> "React", contributionLevel |-> "Moderate", role |-> "Contributor",
      status |-> "Rejected", appliedToConfidence |-> TRUE]}

MaxAwards == 3

\* Batches of up to MaxAwards contributions with the ids c1, c2, c3, ...
AwardBatches ==
    UNION {{[i \in 1..n |-> [id |-> ContributionId(i), skill |-> kinds[i].skill,
                             contributionLevel |-> kinds[i].contributionLevel,
                             role |-> kinds[i].role,
                             status |-> kinds[i].status,
                             appliedToConfidence |-> kinds[i].appliedToConfidence]] :
              kinds \in [1..n -> AwardKinds]} : n \in 0..MaxAwards}

\* The confidence updates of Module 4E: none, one for every contribution
\* of the batch, one for all but the first
ConfidenceUpdates(n, confidence_delta) ==
    {<<>>,
     [i \in 1..n |-> [sourceContributionId |-> ContributionId(i),
                      increment |-> confidence_delta]],
     [i \in 1..(n - 1) |-> [sourceContributionId |-> ContributionId(i + 1),
                            increment |-> confidence_delta]]}

CallProcessPointAwards ==
    /\ fn = "none"
    /\ \E validated_contributions \in AwardBatches,
       confidence_delta \in {4990, 7500, 10000},
       points \in {0, 100, 197, 200} :
        \E confidence_updates \in
               ConfidenceUpdates(Len(validated_contributions), confidence_delta) :
            /\ fn' = "process_point_awards"
            /\ arg' = [validated_contributions |-> validated_contributions,
                       confidence_updates |-> confidence_updates,
                       current_monthly_points |-> [s \in {"React"} |-> points]]
            /\ ret' = process_point_awards(validated_contributions,
                                           confidence_updates,
                                           [s \in {"React"} |-> points])
            /\ UNCHANGED srvVars

\* The PDF files of hr_documents/ in the order os.listdir gives them
PdfNames == {"leave.pdf", "handbook.pdf", "scan.pdf", "broken.pdf"}

PdfLists ==
    {<<>>} \cup {<<a>> : a \in PdfNames}
    \cup {p \in PdfNames \X PdfNames : p[1] # p[2]}
    \cup {p \in PdfNames \X PdfNames \X PdfNames :
            p[1] # p[2] /\ p[1] # p[3] /\ p[2] # p[3]}

CallReindexHrDocuments ==
    /\ fn = "none"
    /\ \E pdfs \in PdfLists, embedder_state \in {"ok", "down"} :
        /\ fn' = "reindex_hr_documents"
        /\ arg' = [pdfs |-> pdfs, embedder |-> embedder_state]
        /\ ret' = reindex_hr_documents(NoIndex,
                                       Env(pdfs, "absent", embedder_state, TRUE))
        /\ UNCHANGED srvVars

Return ==
    /\ fn # "none"
    /\ fn' = "none"
    /\ arg' = <<>>
    /\ ret' = <<>>
    /\ UNCHANGED srvVars

GenNext ==
    \/ Return
    \/ CallGenerateAnswer
    \/ CallGenerateAnswerWithMetadata
    \/ CallCalculateConfidence
    \/ CallGenerateResponse
    \/ CallSafeParseLlmJson
    \/ CallCallLlm
    \/ CallSearchSimilarChunks
    \/ CallChunkText
    \/ CallCleanText
    \/ CallCleanAndChunk
    \/ CallReindexHrDocuments
    \/ CallApplyConfidenceUpdate
    \/ CallProcessValidatedContributions
    \/ CallProcessPointAwards
    \/ CallChat

SpecGen == GenInit /\ [][GenNext]_vars

----------------------------------------------------------------------------
(* app.py as a server: one event loop runs the coroutines of the requests. *)
(* Every handler is an async def and nothing runs in a thread, so a        *)
(* coroutine keeps the loop from where it is resumed to its next await.    *)

Globals ==
    [embeddings |-> _embeddings, chunk_texts |-> _chunk_texts,
     chunks_metadata |-> _chunks_metadata, loaded |-> _embeddings_loaded]

SetGlobals(st) ==
    /\ _embeddings' = st.embeddings
    /\ _chunk_texts' = st.chunk_texts
    /\ _chunks_metadata' = st.chunks_metadata
    /\ _embeddings_loaded' = st.loaded

CurEnv == Env(disk.pdfs, disk.chunks_file, embedder, modules)

\* The await points if reindex_hr_documents gave up the loop between its
\* assignments to _embeddings and to _chunk_texts
AwaitPointsMidSwap == {"await_read", "set_chunk_texts"}

\* The places where a handler awaits: upload_hr_document at line 2881
AwaitPoints == {"await_read"}

\* The loop after coroutine c moved to pc: free at an await and at the end
Yield(c, pc) == IF pc \in AwaitPoints \cup {"idle"} THEN 0 ELSE c

\* c may take a step: it holds the loop, or the loop is free and c is ready
CanRun(c) ==
    /\ co[c].handler # "idle"
    /\ running = c \/ running = 0

Goto(c, pc) ==
    /\ co' = [co EXCEPT ![c].pc = pc]
    /\ running' = Yield(c, pc)

\* The handler of c returns or raises: the response is sent, the frame freed
Respond(c) ==
    /\ co' = [co EXCEPT ![c] = IdleFrame]
    /\ running' = 0

UploadNames == {"handbook.pdf", "notes.txt"}

\* os.path.splitext(file.filename)[1].lower() == '.pdf'
IsPdf(filename) == filename \in {"handbook.pdf", "scan.pdf", "leave.pdf", "broken.pdf"}

ServerQuestions == {Q_LEAVE, <<" ">>}

ServerInit ==
    /\ fn = "none"
    /\ arg = <<>>
    /\ ret = <<>>
    /\ _embeddings = NoVectors
    /\ _chunk_texts = <<>>
    /\ _chunks_metadata = <<>>
    /\ _embeddings_loaded = FALSE
    /\ disk \in {[pdfs |-> p, chunks_file |-> f] :
                    p \in {<<>>, <<"leave.pdf">>}, f \in {"absent", "mixed", "blank"}}
    /\ embedder \in {"ok", "down"}
    /\ modules = TRUE
    /\ running = -1
    /\ co = [c \in Coroutines |-> IdleFrame]
    /\ log = NoLog

\* startup_event: the index is loaded before the first request is served
Startup ==
    /\ running = -1
    /\ LET ld == load_chunks_and_embeddings(Globals, CurEnv)
       IN  /\ SetGlobals(ld.st)
           /\ log' = [op |-> "load", ok |-> ld.ok, before |-> Globals]
    /\ running' = 0
    /\ UNCHANGED <<genVars, disk, embedder, modules, co>>

\* The sentence-transformers model becomes unavailable, or available again
EmbedderChange ==
    /\ running >= 0
    /\ embedder' = IF embedder = "ok" THEN "down" ELSE "ok"
    /\ UNCHANGED <<genVars, _embeddings, _chunk_texts, _chunks_metadata,
                   _embeddings_loaded, disk, modules, running, co, log>>

\* A request arrives while the loop is free: its coroutine gets the first
\* free frame
CanReceive(c) ==
    /\ running = 0
    /\ co[c].handler = "idle"
    /\ \A d \in 1..(c - 1) : co[d].handler # "idle"

ReceiveChat(c) ==
    \E question \in ServerQuestions :
        /\ CanReceive(c)
        /\ co' = [co EXCEPT ![c] = [IdleFrame EXCEPT !.handler = "chat",
                                        !.pc = "start", !.question = question]]
        /\ UNCHANGED <<genVars, _embeddings, _chunk_texts, _chunks_metadata,
                       _embeddings_loaded, disk, embedder, modules, running, log>>

ReceiveUpload(c) ==
    \E filename \in UploadNames :
        /\ CanReceive(c)
        /\ co' = [co EXCEPT ![c] = [IdleFrame EXCEPT !.handler = "upload",
                                        !.pc = "start", !.filename = filename]]
        /\ UNCHANGED <<genVars, _embeddings, _chunk_texts, _chunks_metadata,
                       _embeddings_loaded, disk, embedder, modules, running, log>>

ReceiveReindex(c) ==
    /\ CanReceive(c)
    /\ co' = [co EXCEPT ![c] = [IdleFrame EXCEPT !.handler = "reindex",
                                    !.pc = "reindex"]]
    /\ UNCHANGED <<genVars, _embeddings, _chunk_texts, _chunks_metadata,
                   _embeddings_loaded, disk, embedder, modules, running, log>>

\* chat, lines 497-520: validation, then the index is loaded if it is not
ChatStart(c) ==
    /\ CanRun(c)
    /\ co[c].handler = "chat" /\ co[c].pc = "start"
    /\ IF ~Truthy(co[c].question) \/ strip(co[c].question) = <<>>
       THEN /\ Respond(c)
            /\ UNCHANGED <<_embeddings, _chunk_texts, _chunks_metadata,
                           _embeddings_loaded, log>>
       ELSE IF _embeddings_loaded
       THEN /\ Goto(c, "read_vectors")
            /\ UNCHANGED <<_embeddings, _chunk_texts, _chunks_metadata,
                           _embeddings_loaded, log>>
       ELSE LET ld == load_chunks_and_embeddings(Globals, CurEnv)
            IN  /\ SetGlobals(ld.st)
                /\ log' = [op |-> "load", ok |-> ld.ok, before |-> Globals]
                /\ IF ld.ok THEN Goto(c, "read_vectors")
                   ELSE Respond(c)
    /\ UNCHANGED <<genVars, disk, embedder, modules>>

\* chat, line 527: the argument _embeddings is read
ChatReadVectors(c) ==
    /\ CanRun(c)
    /\ co[c].handler = "chat" /\ co[c].pc = "read_vectors"
    /\ co' = [co EXCEPT ![c].vectors = _embeddings, ![c].pc = "read_texts"]
    /\ running' = Yield(c, "read_texts")
    /\ UNCHANGED <<genVars, _embeddings, _chunk_texts, _chunks_metadata,
                   _embeddings_loaded, disk, embedder, modules, log>>

\* chat, line 528: the argument _chunk_texts is read
ChatReadTexts(c) ==
    /\ CanRun(c)
    /\ co[c].handler = "chat" /\ co[c].pc = "read_texts"
    /\ co' = [co EXCEPT ![c].texts = _chunk_texts, ![c].pc = "search"]
    /\ running' = Yield(c, "search")
    /\ UNCHANGED <<genVars, _embeddings, _chunk_texts, _chunks_metadata,
                   _embeddings_loaded, disk, embedder, modules, log>>

\* chat, lines 525-674: the search over the pair that was read, the answer
ChatSearch(c) ==
    \E similarities \in SimilarityRows, fault \in BOOLEAN :
        /\ CanRun(c)
        /\ co[c].handler = "chat" /\ co[c].pc = "search"
        /\ ChatTry([question |-> co[c].question, user_id |-> None,
                    chat_id |-> None],
                   None,
                   [Globals EXCEPT !.embeddings = co[c].vectors,
                                   !.chunk_texts = co[c].texts],
                   CurEnv, similarities,
                   [provider |-> "mock", kind |-> "content", content |-> None],
                   fault).status = 200
        /\ Respond(c)
        /\ UNCHANGED <<genVars, _embeddings, _chunk_texts, _chunks_metadata,
                       _embeddings_loaded, disk, embedder, modules, log>>

\* upload_hr_document, lines 2859-2881: validation, up to the await
UploadStart(c) ==
    /\ CanRun(c)
    /\ co[c].handler = "upload" /\ co[c].pc = "start"
    /\ IF IsPdf(co[c].filename) THEN Goto(c, "await_read")
       ELSE Respond(c)
    /\ UNCHANGED <<genVars, _embeddings, _chunk_texts, _chunks_metadata,
                   _embeddings_loaded, disk, embedder, modules, log>>

\* upload_hr_document, lines 2881-2885: the content arrived, the file is
\* written; fault = reading or writing raised
UploadSave(c) ==
    \E fault \in BOOLEAN :
        /\ CanRun(c)
        /\ co[c].handler = "upload" /\ co[c].pc = "await_read"
        /\ IF fault
           THEN /\ Respond(c)
                /\ UNCHANGED disk
           ELSE /\ Goto(c, "reindex")
                /\ disk' = [disk EXCEPT !.pdfs =
                               IF \E i \in 1..Len(@) : @[i] = co[c].filename
                               THEN @ ELSE Append(@, co[c].filename)]
        /\ UNCHANGED <<genVars, _embeddings, _chunk_texts, _chunks_metadata,
                       _embeddings_loaded, embedder, modules, log>>

\* reindex_hr_documents, lines 297-375, called by the upload handler and by
\* the reindex endpoint: the new index is built in locals; a failed build
\* returns False
ReindexBuild(c) ==
    /\ CanRun(c)
    /\ co[c].handler \in {"upload", "reindex"} /\ co[c].pc = "reindex"
    /\ LET r == reindex_hr_documents(Globals, CurEnv)
       IN  IF ~r.ok
           THEN /\ SetGlobals(r.st)
                /\ log' = [op |-> "reindex", ok |-> FALSE, before |-> Globals]
                /\ Respond(c)
           ELSE /\ co' = [co EXCEPT ![c].build = r.st,
                                    ![c].pc = "set_embeddings"]
                /\ running' = Yield(c, "set_embeddings")
                /\ log' = [op |-> "reindex", ok |-> TRUE, before |-> Globals]
                /\ UNCHANGED <<_embeddings, _chunk_texts, _chunks_metadata,
                               _embeddings_loaded>>
    /\ UNCHANGED <<genVars, disk, embedder, modules>>

\* reindex_hr_documents, line 378
ReindexSetEmbeddings(c) ==
    /\ CanRun(c)
    /\ co[c].pc = "set_embeddings"
    /\ _embeddings' = co[c].build.embeddings
    /\ Goto(c, "set_chunk_texts")
    /\ UNCHANGED <<genVars, _chunk_texts, _chunks_metadata, _embeddings_loaded,
                   disk, embedder, modules, log>>

\* reindex_hr_documents, line 379
ReindexSetChunkTexts(c) ==
    /\ CanRun(c)
    /\ co[c].pc = "set_chunk_texts"
    /\ _chunk_texts' = co[c].build.chunk_texts
    /\ Goto(c, "set_chunks_metadata")
    /\ UNCHANGED <<genVars, _embeddings, _chunks_metadata, _embeddings_loaded,
                   disk, embedder, modules, log>>

\* reindex_hr_documents, lines 380-386
ReindexSetChunksMetadata(c) ==
    /\ CanRun(c)
    /\ co[c].pc = "set_chunks_metadata"
    /\ _chunks_metadata' = co[c].build.chunks_metadata
    /\ Goto(c, "set_loaded")
    /\ UNCHANGED <<genVars, _embeddings, _chunk_texts, _embeddings_loaded,
                   disk, embedder, modules, log>>

\* reindex_hr_documents, lines 387-392, and the handler's response
ReindexSetLoaded(c) ==
    /\ CanRun(c)
    /\ co[c].pc = "set_loaded"
    /\ _embeddings_loaded' = TRUE
    /\ Respond(c)
    /\ UNCHANGED <<genVars, _embeddings, _chunk_texts, _chunks_metadata,
                   disk, embedder, modules, log>>

ServerNext ==
    \/ Startup
    \/ EmbedderChange
    \/ \E c \in Coroutines :
        \/ ReceiveChat(c)
        \/ ReceiveUpload(c)
        \/ ReceiveReindex(c)
        \/ ChatStart(c)
        \/ ChatReadVectors(c)
        \/ ChatReadTexts(c)
        \/ ChatSearch(c)
        \/ UploadStart(c)
        \/ UploadSave(c)
        \/ ReindexBuild(c)
        \/ ReindexSetEmbeddings(c)
        \/ ReindexSetChunkTexts(c)
        \/ ReindexSetChunksMetadata(c)
        \/ ReindexSetLoaded(c)

Spec == ServerInit /\ [][ServerNext]_vars

----------------------------------------------------------------------------
(* Properties of the answer pipeline, checked under SpecGen.               *)

\* The last call returned an answer envelope
HasEnvelope ==
    \/ fn = "generate_response"
    \/ fn = "generate_answer_with_metadata" /\ ~ret.exc
    \/ fn = "chat" /\ ret.status = 200

Envelope ==
    CASE fn = "generate_response" -> ret
      [] fn = "generate_answer_with_metadata" -> ret.val
      [] fn = "chat" -> ret.body

\* The provider gave nothing usable: no client, an exception, a malformed
\* reply, or content that is None, not a string, empty or blank
ProviderFailed(llm) ==
    \/ llm.kind \in {"no_client", "raises", "malformed"}
    \/ llm.kind = "content"
         /\ (llm.content = None \/ ~IsStr(llm.content) \/ strip(llm.content) = <<>>)

IsPrefix(p, t) == Len(p) <= Len(t) /\ SubSeq(t, 1, Len(p)) = p

\* C1: every envelope returned by generate_answer_with_metadata,
\* generate_response and /chat has needsEscalation true exactly when its
\* (rounded) confidence is below 0.60.
C1_EscalationConsistency ==
    HasEnvelope => (Envelope.needsEscalation <=> Envelope.confidence < 600)

\* C2: every envelope returned by generate_response,
\* generate_answer_with_metadata and /chat has a non-empty string answer, a
\* confidence within [0, 1] that is a whole number of hundredths, and a
\* boolean needsEscalation.
C2_EnvelopeValid ==
    HasEnvelope =>
        /\ IsStr(Envelope.answer)
        /\ strip(Envelope.answer) # <<>>
        /\ Envelope.confidence \in 0..One
        /\ Envelope.confidence % 10 = 0
        /\ Envelope.needsEscalation \in BOOLEAN

\* C2 witness: generate_answer_with_metadata was called with a similarity
\* above 1.0 and returned an envelope, and generate_response's envelopes on
\* provider failure are the same case on the other function.
C2_Witness ==
    /\ fn = "generate_answer_with_metadata" /\ ~ret.exc
    /\ Len(arg.context_chunks) = 1 /\ arg.context_chunks[1].kind = "dict"
    /\ arg.context_chunks[1].score > One
    /\ ret.val.sources # <<>>
    /\ ret.val.confidence = One

\* C3: when the answer text holds a missing-information marker, the
\* confidence _calculate_confidence returns is at most 0.40.
C3_MissingInfoCap ==
    (fn = "_calculate_confidence" /\ HasMissingIndicator(arg.answer))
        => ret <= 400

\* The first valid chunk of what the caller supplied, and how many there are
SuppliedTexts ==
    CASE fn = "generate_answer" -> ValidChunks(arg.context_chunks.items)
      [] fn = "generate_response" -> ValidChunks(arg.document_texts.items)
      [] fn = "generate_answer_with_metadata" ->
            [i \in 1..Len(KeptChunks(arg.context_chunks)) |->
                KeptChunks(arg.context_chunks)[i].text]

ReturnedAnswer ==
    CASE fn = "generate_answer" -> ret.val
      [] fn = "generate_response" -> ret.answer
      [] fn = "generate_answer_with_metadata" -> ret.val.answer

FallbackCase ==
    /\ fn \in {"generate_answer", "generate_response", "generate_answer_with_metadata"}
    /\ fn = "generate_response" => arg.llm.provider # "mock"
    /\ fn = "generate_answer_with_metadata" => ~ret.exc
    /\ Truthy(IF fn = "generate_response" THEN arg.question ELSE arg.query)
    /\ IsStr(IF fn = "generate_response" THEN arg.question ELSE arg.query)
    /\ strip(IF fn = "generate_response" THEN arg.question ELSE arg.query) # <<>>
    /\ fn = "generate_answer" => arg.context_chunks.kind = "list"
    /\ fn = "generate_response" => arg.document_texts.kind = "list"
    /\ ProviderFailed(arg.llm)
    /\ SuppliedTexts # <<>>

\* C8: when the provider fails and at least one valid chunk was supplied,
\* generate_answer, generate_answer_with_metadata and generate_response
\* return the attribution sentence followed by the first valid chunk, with
\* a caveat after it when more than one chunk was supplied.
C8_ChunkFallback ==
    FallbackCase =>
        /\ IsPrefix(FALLBACK_PREFIX \o SuppliedTexts[1], ReturnedAnswer)
        /\ Len(SuppliedTexts) > 1 =>
               Len(ReturnedAnswer) > Len(FALLBACK_PREFIX \o SuppliedTexts[1])

\* C9: generate_answer never raises and returns a non-empty string.
C9_GeneratorTotal ==
    fn = "generate_answer" =>
        /\ ~ret.exc
        /\ IsStr(ret.val)
        /\ ret.val # <<>>

\* C9 witness: the provider returned nothing for a valid query with a valid
\* chunk, and generate_answer returned the chunk fallback.
C9_Witness ==
    /\ fn = "generate_answer"
    /\ IsStr(arg.query) /\ arg.query # <<>>
    /\ arg.context_chunks.kind = "list"
    /\ ValidChunks(arg.context_chunks.items) # <<>>
    /\ ProviderFailed(arg.llm)
    /\ IsPrefix(FALLBACK_PREFIX, ret.val)

\* C10: every envelope of generate_answer_with_metadata and of /chat whose
\* sources list is empty has confidence 0.0 and needsEscalation true.
C10_EmptySources ==
    (fn \in {"generate_answer_with_metadata", "chat"} /\ HasEnvelope
        /\ Envelope.sources = <<>>)
        => (Envelope.confidence = 0 /\ Envelope.needsEscalation)

----------------------------------------------------------------------------
(* Properties of the index under the server specification Spec.            *)

\* No call of reindex_hr_documents is between its assignments
NoBuildAssigning ==
    \A c \in Coroutines :
        co[c].pc \notin {"set_chunk_texts", "set_chunks_metadata", "set_loaded"}

\* C4: the (vectors, texts) pair a /chat query hands to
\* search_similar_chunks is one index, whole: the vectors are the encodings
\* of exactly the texts, so their lengths never differ, whatever reindexing
\* runs while the query is in flight.
C4_AtomicIndexReplacement ==
    \A c \in Coroutines :
        (co[c].handler = "chat" /\ co[c].pc = "search") =>
            /\ ~co[c].vectors.none
            /\ co[c].vectors = EncodeAll(co[c].texts)

\* A query has read its pair from an index that a reindex put in place of
\* an earlier one, while an upload is waiting for its file
C4_Witness ==
    \E c, d \in Coroutines :
        /\ co[c].handler = "chat" /\ co[c].pc = "search"
        /\ co[d].handler = "upload" /\ co[d].pc = "await_read"
        /\ log.op = "reindex" /\ log.ok /\ log.before.loaded
        /\ co[c].texts # log.before.chunk_texts

\* C5: after a call of reindex_hr_documents or load_chunks_and_embeddings
\* that returned False the four globals are what they were when it was
\* called.
C5_FailedBuildLeavesIndex ==
    (log.op # "none" /\ ~log.ok) => Globals = log.before

\* A reindex failed while an index was live
C5_Witness ==
    /\ log.op = "reindex" /\ ~log.ok
    /\ log.before.loaded
    /\ embedder = "down"

\* C6: whenever _embeddings_loaded is true and no build is in the middle of
\* its assignments, _embeddings is not None and has as many rows as
\* _chunk_texts has texts, at least one.
C6_IndexLengths ==
    (_embeddings_loaded /\ NoBuildAssigning) =>
        /\ ~_embeddings.none
        /\ Len(_embeddings.rows) = Len(_chunk_texts)
        /\ Len(_chunk_texts) >= 1

\* An index of another length replaced a live one
C6_Witness ==
    /\ _embeddings_loaded /\ NoBuildAssigning
    /\ log.op = "reindex" /\ log.ok /\ log.before.loaded
    /\ Len(log.before.chunk_texts) # Len(_chunk_texts)

----------------------------------------------------------------------------
(* The /chat handler under SpecGen.                                        *)

\* What load_chunks_and_embeddings gives the handler at lines 514-520
ChatIndex ==
    IF arg.st.loaded THEN [ok |-> TRUE, st |-> arg.st]
    ELSE load_chunks_and_embeddings(arg.st, arg.env)

\* Everything fails for the request: no index can be built, the search
\* retrieves nothing, the LLM service or its provider is unavailable, or an
\* exception is raised
ChatTotalFailure ==
    \/ ~ChatIndex.ok
    \/ arg.fault
    \/ ~arg.env.modules
    \/ arg.llm.provider # "mock" /\ ProviderFailed(arg.llm)
    \/ search_similar_chunks(strip(arg.request.question), ChatIndex.st.embeddings,
           ChatIndex.st.chunk_texts, TopK,
           SubSeq(arg.similarities, 1, Len(ChatIndex.st.embeddings.rows)),
           arg.env.embedder) = <<>>

FixedAnswers ==
    {MSG_NO_INFO, MSG_NO_INFO_SHORT, MSG_UNABLE, MSG_TROUBLE, MSG_UNABLE_GENERATE}

\* C7: a /chat request with a non-empty question for which everything fails
\* gets a normal response: status 200, a fixed no-information answer,
\* confidence 0.0 and needsEscalation true; never an HTTP error.
C7_TotalFailureResponse ==
    (/\ fn = "chat"
     /\ Truthy(arg.request.question) /\ strip(arg.request.question) # <<>>
     /\ ChatTotalFailure) =>
        /\ ret.status = 200
        /\ ret.body.answer \in FixedAnswers
        /\ ret.body.confidence = 0
        /\ ret.body.needsEscalation

----------------------------------------------------------------------------
(* The parser of the LLM output under SpecGen.                             *)

\* C11: safe_parse_llm_json never raises, and for every input string and
\* every baseline in [0, 1] it returns a string answer, a confidence within
\* [0.0, 1.0], a boolean needsEscalation and a string reason.
C11_ParserTotal ==
    fn = "safe_parse_llm_json" =>
        /\ ~ret.exc
        /\ IsStr(ret.val.answer)
        /\ ret.val.confidence \in 0..One
        /\ ret.val.needsEscalation \in BOOLEAN
        /\ IsStr(ret.val.reason)

----------------------------------------------------------------------------
(* search_similar_chunks under SpecGen.                                    *)

\* The arguments of the call are valid and the model encodes the query
SearchValid ==
    /\ fn = "search_similar_chunks"
    /\ Truthy(arg.query) /\ IsStr(arg.query) /\ strip(arg.query) # <<>>
    /\ ~arg.vectors.none
    /\ Len(arg.texts) >= 1 /\ Len(arg.vectors.rows) = Len(arg.texts)
    /\ arg.top_k >= 1
    /\ arg.embedder = "ok"

SearchInvalid ==
    /\ fn = "search_similar_chunks"
    /\ \/ ~Truthy(arg.query) \/ ~IsStr(arg.query) \/ strip(arg.query) = <<>>
       \/ arg.vectors.none \/ Len(arg.vectors.rows) = 0
       \/ Len(arg.texts) = 0
       \/ Len(arg.vectors.rows) # Len(arg.texts)
       \/ arg.top_k <= 0

\* C13: with an empty, blank or non-string query, with vectors None or
\* empty, with no texts, with vectors and texts of different lengths or
\* with top_k <= 0, search_similar_chunks returns the empty list and does
\* not get to the embedding model.
C13_SearchValidation ==
    SearchInvalid => (ret.results = <<>> /\ ~ret.encoded)

\* The lengths of vectors and texts differ while the model is available
C13_Witness ==
    /\ SearchInvalid
    /\ ~arg.vectors.none /\ Len(arg.texts) >= 1
    /\ Len(arg.vectors.rows) # Len(arg.texts)
    /\ arg.embedder = "ok"
    /\ ret.results = <<>>

----------------------------------------------------------------------------
(* chunk_text under SpecGen.                                               *)

ReturnedChunks == {ret[i] : i \in 1..Len(ret)}

\* The pieces chunk_text places whole: a paragraph, or the sentences of a
\* paragraph of more than max_chunk_size words
PiecesOf(cleaned_text) ==
    LET paragraphs == Paragraphs(cleaned_text)
    IN  UNION {IF count_words(paragraphs[i]) > max_chunk_size
               THEN {split_into_sentences(paragraphs[i])[j] :
                       j \in 1..Len(split_into_sentences(paragraphs[i]))}
               ELSE {paragraphs[i]} : i \in 1..Len(paragraphs)}

\* C14: every paragraph of the cleaned text, and every sentence of a
\* paragraph longer than max_chunk_size, is part of the text of at least one
\* chunk that chunk_text returns; a final buffer under min_chunk_size is
\* not lost when earlier chunks exist.
C14_ChunkCoverage ==
    (fn = "chunk_text" /\ arg.cleaned_text # NonText) =>
        \A piece \in PiecesOf(arg.cleaned_text) :
            \E chunk \in ReturnedChunks : Contains(chunk.text, piece)

HasContent(text) == text # NonText /\ StripText(text) # <<>>

\* C15: for a cleaned text with at least one character that is not
\* whitespace chunk_text returns at least one chunk, and the text of every
\* chunk is non-empty.
C15_AtLeastOneChunk ==
    (fn = "chunk_text" /\ HasContent(arg.cleaned_text)) =>
        /\ Len(ret) >= 1
        /\ \A chunk \in ReturnedChunks : StripText(chunk.text) # <<>>

\* A text under min_chunk_size comes back as one chunk
C15_Witness ==
    /\ fn = "chunk_text"
    /\ HasContent(arg.cleaned_text)
    /\ count_words(arg.cleaned_text) < min_chunk_size
    /\ Len(ret) = 1
    /\ ret[1].text = arg.cleaned_text

\* C16: with the default sizes every chunk but the last one has at most
\* max_chunk_size words, the chunks that start with the overlap words and
\* the chunks made of the sentences of an over-long paragraph included.
C16_ChunkSizeBound ==
    fn = "chunk_text" =>
        \A i \in 1..(Len(ret) - 1) : count_words(ret[i].text) <= max_chunk_size

----------------------------------------------------------------------------
(* clean_text and clean_and_chunk under SpecGen.                           *)

\* C17: clean_and_chunk does not raise, and for every raw text that is not
\* empty it returns at least one chunk, also when the text holds nothing
\* but page markers, repeated header lines or table-of-contents entries.
C17_SegmentationFailSafe ==
    (fn = "clean_and_chunk" /\ HasContent(arg.raw_text)) => Len(ret) >= 1

\* C18: cleaning a cleaned text changes nothing:
\* clean_text(clean_text(text)) = clean_text(text).
C18_CleaningIdempotent ==
    fn = "clean_text" => clean_text(ret) = ret

----------------------------------------------------------------------------
(* Chunk ids under SpecGen.                                                *)

\* C19: chunk_text numbers the chunks of a document 1..n in the order it
\* emits them, and reindex_hr_documents numbers the chunks of all documents
\* 1..N without repeats or gaps, whatever documents it skips.
C19_ChunkIds ==
    /\ fn = "chunk_text" => \A i \in 1..Len(ret) : ret[i].chunk_id = i
    /\ (fn = "reindex_hr_documents" /\ ret.ok) =>
            \A i \in 1..Len(ret.st.chunks_metadata) :
                ret.st.chunks_metadata[i].chunk_id = i

\* A build of three chunks from two documents, with a document that gave
\* no text and one that raised skipped between them
C19_Witness ==
    /\ fn = "reindex_hr_documents"
    /\ ret.ok
    /\ arg.pdfs \in {<<"leave.pdf", "scan.pdf", "handbook.pdf">>,
                     <<"leave.pdf", "broken.pdf", "handbook.pdf">>}
    /\ Len(ret.st.chunks_metadata) = 3

----------------------------------------------------------------------------
(* apply_confidence_update under SpecGen.                                  *)

\* C20: for a current confidence in [0, 100], any increment and any monthly
\* growth used >= 0, apply_confidence_update returns a new confidence that
\* is at least the current one and at most 100, and an applied increment
\* that is not negative.
C20_ConfidenceNeverDecreases ==
    (/\ fn = "apply_confidence_update"
     /\ arg.current_confidence \in MIN_CONFIDENCE..MAX_CONFIDENCE
     /\ arg.monthly_growth_used >= 0) =>
        /\ arg.current_confidence <= ret.new_confidence
        /\ ret.new_confidence <= MAX_CONFIDENCE
        /\ ret.actual_increment >= 0

----------------------------------------------------------------------------
(* process_validated_contributions under SpecGen.                          *)

\* The sum of the increments of the updates of the plan for one skill
RECURSIVE PlannedGrowth(_, _)
PlannedGrowth(updates, skill) ==
    IF updates = <<>> THEN 0
    ELSE (IF Head(updates).skill = skill THEN Head(updates).increment ELSE 0)
         + PlannedGrowth(Tail(updates), skill)

\* C21: for every skill whose growth used this month is at most
\* MONTHLY_GROWTH_CAP, the growth used plus the increments of all updates
\* of the returned plan for that skill is at most MONTHLY_GROWTH_CAP.
C21_MonthlyGrowthCap ==
    (fn = "process_validated_contributions" /\ ~ret.exc) =>
        \A skill \in {"React", "Node"} :
            GetOr(arg.monthly_growth_tracker, skill, 0) <= MONTHLY_GROWTH_CAP =>
                GetOr(arg.monthly_growth_tracker, skill, 0)
                    + PlannedGrowth(ret.updates, skill) <= MONTHLY_GROWTH_CAP

\* C22: for every list of applied contribution ids, empty or not,
\* process_validated_contributions returns a plan; no update of it comes
\* from an applied contribution and every update comes from a contribution
\* with status Validated.
C22_NoDuplicateApplication ==
    fn = "process_validated_contributions" =>
        /\ ~ret.exc
        /\ \A i \in 1..Len(ret.updates) :
              /\ \A j \in 1..Len(arg.applied_contributions) :
                    arg.applied_contributions[j] # ret.updates[i].sourceContributionId
              /\ \E k \in 1..Len(arg.validated_contributions) :
                    /\ arg.validated_contributions[k].id
                           = ret.updates[i].sourceContributionId
                    /\ arg.validated_contributions[k].status = "Validated"

----------------------------------------------------------------------------
(* process_point_awards under SpecGen.                                     *)

\* The sum of pointsAwarded over the awards of the plan for one skill, or
\* for every skill
RECURSIVE PlannedPoints(_, _)
PlannedPoints(awards, skills) ==
    IF awards = <<>> THEN 0
    ELSE (IF Head(awards).skill \in skills THEN Head(awards).pointsAwarded ELSE 0)
         + PlannedPoints(Tail(awards), skills)

\* C23: for every skill, the points already awarded this month plus the
\* pointsAwarded of all awards of the plan for that skill are at most
\* MONTHLY_POINTS_CAP_PER_SKILL, and every single award is within
\* MIN_POINTS_PER_CONTRIBUTION and MAX_POINTS_PER_CONTRIBUTION.
C23_MonthlyPointsCap ==
    fn = "process_point_awards" =>
        /\ \A skill \in {"React", "Node"} :
              GetOr(arg.current_monthly_points, skill, 0)
                  + PlannedPoints(ret.awards, {skill})
                      <= MONTHLY_POINTS_CAP_PER_SKILL
        /\ \A i \in 1..Len(ret.awards) :
              /\ MIN_POINTS_PER_CONTRIBUTION <= ret.awards[i].pointsAwarded
              /\ ret.awards[i].pointsAwarded <= MAX_POINTS_PER_CONTRIBUTION

\* C24: every award of the plan is for a contribution that is validated,
\* has been applied to confidence and has a matching confidence update,
\* and totalPoints is the sum of pointsAwarded of the awards.
C24_PointsOnlyForValidatedApplied ==
    fn = "process_point_awards" =>
        /\ \A i \in 1..Len(ret.awards) :
              \E k \in 1..Len(arg.validated_contributions) :
                  /\ arg.validated_contributions[k].id
                         = ret.awards[i].sourceContributionId
                  /\ arg.validated_contributions[k].status = "Validated"
                  /\ arg.validated_contributions[k].appliedToConfidence
                  /\ \E u \in 1..Len(arg.confidence_updates) :
                         arg.confidence_updates[u].sourceContributionId
                             = ret.awards[i].sourceContributionId
        /\ ret.totalPoints = PlannedPoints(ret.awards, {"React", "Node"})

----------------------------------------------------------------------------
(* The plain-text fallback of safe_parse_llm_json under SpecGen.           *)

\* The first balanced {...} span of the fence-stripped text, None when
\* there is none
FirstBalancedSpan(text_clean) ==
    LET brace_start == FirstIndex(text_clean, "{", 1)
        brace_end == IF brace_start = 0 THEN 0
                     ELSE MatchBrace(text_clean, brace_start, 0)
    IN  IF brace_end = 0 THEN None
        ELSE SubSeq(text_clean, brace_start, brace_end)

\* The first balanced span is missing, is rejected by the strict JSON
\* parser, or is not an object
NoUsableFirstSpan(text_clean) ==
    LET span == FirstBalancedSpan(text_clean)
        loaded == JsonLoads(span)
    IN  \/ span = None
        \/ ~loaded.raises /\ (~loaded.ok \/ ~loaded.dict)

\* C25: when the fence-stripped output has no balanced {...} span, or the
\* first balanced span fails strict JSON parsing or is not an object, the
\* answer is the entire fence-stripped text, the confidence the baseline
\* clamped to [0, 1], needsEscalation is (baseline < 0.60) and the reason
\* is empty: no later span of the text is used instead.
C25_PlainTextFallback ==
    (/\ fn = "safe_parse_llm_json"
     /\ Truthy(arg.response_text) /\ IsStr(arg.response_text)
     /\ NoUsableFirstSpan(StripFences(arg.response_text))) =>
        ret = Ok([answer |-> StripFences(arg.response_text),
                  confidence |-> Clamp(arg.default_confidence),
                  needsEscalation |-> arg.default_confidence < 600,
                  reason |-> <<>>])

----------------------------------------------------------------------------
(* The order of equal similarities in search_similar_chunks under SpecGen. *)

\* C26: results of equal similarity are ordered by their index in the
\* index, lower first, and a chunk left out by the top_k cut that ties
\* with a returned one has the higher index.
C26_TieBreakByIndex ==
    SearchValid =>
        LET res == ret.results
        IN  /\ \A j \in 1..Len(res) : \A k \in (j + 1)..Len(res) :
                  res[j].score = res[k].score => res[j].chunk_id < res[k].chunk_id
            /\ \A i \in 1..Len(arg.texts) : \A j \in 1..Len(res) :
                  (/\ \A k \in 1..Len(res) : res[k].chunk_id # i
                   /\ arg.similarities[i] = res[j].score) =>
                      res[j].chunk_id < i

----------------------------------------------------------------------------
(* Generation without context under SpecGen.                               *)

\* A context chunk that is a non-empty string
IsValidContext(text) == Truthy(text) /\ IsStr(text)

\* None of the chunks of a list of strings is a non-empty string
NoValidText(context_chunks) ==
    \/ context_chunks.kind # "list"
    \/ \A i \in 1..Len(context_chunks.items) :
          ~IsValidContext(context_chunks.items[i])

\* None of the chunks of generate_answer_with_metadata carries a non-empty
\* string
NoValidHit(context_chunks) ==
    \A i \in 1..Len(context_chunks) : ~IsValidContext(context_chunks[i].text)

\* C27: with no valid (non-empty string) context chunk, generate_answer,
\* generate_answer_with_metadata and generate_response return the
\* no-information message and do not get to a model provider.
C27_NoGenerationWithoutContext ==
    /\ (/\ fn = "generate_answer"
        /\ Truthy(arg.query) /\ IsStr(arg.query)
        /\ NoValidText(arg.context_chunks)) =>
           /\ ret = Ok(MSG_NO_INFO_SHORT)
           /\ ~generate_answer_invokes(arg.query, arg.context_chunks, arg.llm)
    /\ (/\ fn = "generate_answer_with_metadata"
        /\ IsStr(arg.query)
        /\ NoValidHit(arg.context_chunks)) =>
           /\ ~ret.exc
           /\ ret.val.answer = MSG_NO_INFO
           /\ ~generate_answer_with_metadata_invokes(arg.query, arg.context_chunks,
                                                     arg.llm)
    /\ (/\ fn = "generate_response"
        /\ Truthy(arg.question) /\ IsStr(arg.question) /\ strip(arg.question) # <<>>
        /\ NoValidText(arg.document_texts)) =>
           /\ ret.answer = MSG_NO_INFO
           /\ ~generate_response_invokes(arg.question, arg.document_texts, arg.llm)

----------------------------------------------------------------------------
(* Provider routing of _call_llm under SpecGen.                            *)

----------------------------------------------------------------------------
(* Escalation records of /chat under SpecGen.                              *)

\* C29: for a /chat request with a user_id that returns a response, an
\* escalation record is created exactly when the returned response has
\* needsEscalation = true, and only with the chat history saved: without
\* search results, with a normal answer and on the fallback of the
\* exception handler.
C29_EscalationFollowsFlag ==
    (/\ fn = "chat"
     /\ ret.status = 200
     /\ arg.request.user_id # None) =>
        /\ ret.escalated <=> ret.body.needsEscalation
        /\ ret.escalated => ret.saved

----------------------------------------------------------------------------
(* The chunk ids of search results and of the sources of /chat under       *)
(* SpecGen.                                                                *)

=============================================================================
